---- MODULE Spec2Model ----
(***************************************************************************)
(* The preference state machine of the shopping assistant: the Preference  *)
(* Record (models/preferences.py), the normaliser and merger               *)
(* (services/preference_service.py), the lexical router predicates         *)
(* (utils/validators.py, services/search_service.py), the per-turn         *)
(* pipeline of ConversationWorkflow (workflows/conversation_flow.py), and  *)
(* the hard filter and ranking of the product search                       *)
(* (utils/validators.py, services/search_service.py).                      *)
(*                                                                         *)
(* A Python str is a sequence of one-character strings, so that lower(),   *)
(* strip(), split() and the substring test `t in s` are computed.          *)
(***************************************************************************)
EXTENDS Integers, Sequences, FiniteSets, TLC

\* ------------------------------------------------------------------ str

UpperCase ==
    << "A","B","C","D","E","F","G","H","I","J","K","L","M",
       "N","O","P","Q","R","S","T","U","V","W","X","Y","Z" >>

LowerCase ==
    << "a","b","c","d","e","f","g","h","i","j","k","l","m",
       "n","o","p","q","r","s","t","u","v","w","x","y","z" >>

LowerChar(c) ==
    IF \E i \in 1..26 : UpperCase[i] = c
    THEN LowerCase[CHOOSE i \in 1..26 : UpperCase[i] = c]
    ELSE c

RECURSIVE Lower(_)
\* str.lower()
Lower(s) ==
    IF s = <<>> THEN <<>> ELSE <<LowerChar(Head(s))>> \o Lower(Tail(s))

RECURSIVE LStrip(_)
LStrip(s) ==
    IF s /= <<>> /\ Head(s) = " " THEN LStrip(Tail(s)) ELSE s

RECURSIVE RStrip(_)
RStrip(s) ==
    IF s /= <<>> /\ s[Len(s)] = " " THEN RStrip(SubSeq(s, 1, Len(s) - 1)) ELSE s

\* str.strip()
Strip(s) == RStrip(LStrip(s))

\* the Python test `t in s` on two strings
Contains(t, s) ==
    \E i \in 0..(Len(s) - Len(t)) : SubSeq(s, i + 1, i + Len(t)) = t

\* len(s.split()): the number of maximal runs of non-blank characters
WordCount(s) ==
    Cardinality({ i \in 1..Len(s) : s[i] /= " " /\ (i = 1 \/ s[i - 1] = " ") })

\* `x in seq` on a list
InList(x, seq) == \E i \in 1..Len(seq) : seq[i] = x

\* ------------------------------------------------------- config/settings.py

BAG_CATEGORIES ==
    { <<"t","o","t","e">>,
      <<"s","h","o","u","l","d","e","r"," ","b","a","g">>,
      <<"d","u","f","f","l","e"," ","b","a","g">>,
      <<"b","a","c","k","p","a","c","k">>,
      <<"c","l","u","t","c","h">>,
      <<"c","r","o","s","s","b","o","d","y">>,
      <<"h","a","n","d","b","a","g">>,
      <<"m","e","s","s","e","n","g","e","r">>,
      <<"s","a","t","c","h","e","l">>,
      <<"l","a","p","t","o","p"," ","b","a","g">>,
      <<"b","r","i","e","f","c","a","s","e">>,
      <<"w","r","i","s","t","l","e","t">>,
      <<"w","a","l","l","e","t">>,
      <<"p","u","r","s","e">> }

VALID_BRANDS ==
    { <<"1","9","7","8","W">>,
      <<"A","c","t","i","v","e"," ","F","l","e","x">>,
      <<"A","l","a","n"," ","P","i","n","k","u","s">>,
      <<"A","m","e","l","i","a"," ","L","a","n","e">>,
      <<"A","m","e","r","i","c","a","n"," ","T","o","u","r","i","s","t","e","r">>,
      <<"A","r","m","a","n","i"," ","E","x","c","h","a","n","g","e">>,
      <<"A","u","s","t","r","a","l","i","a","n"," ","H","o","u","s","e"," ","&"," ","G","a","r","d","e","n">>,
      <<"B","a","s","q","u","e">>,
      <<"B","e","l","l","e"," ","&"," ","B","l","o","o","m">>,
      <<"B","i","l","l","a","b","o","n","g">>,
      <<"B","o","u","t","i","q","u","e"," ","R","e","t","a","i","l","e","r">>,
      <<"C","a","l","v","i","n"," ","K","l","e","i","n">>,
      <<"C","e","l","l","i","n","i">>,
      <<"C","e","l","l","i","n","i"," ","S","p","o","r","t">>,
      <<"C","o","m","m","o","n","r","y">>,
      <<"C","o","u","n","t","r","y"," ","R","o","a","d">>,
      <<"C","r","e","e","d">>,
      <<"D","a","v","i","d"," ","L","a","w","r","e","n","c","e">>,
      <<"D","e","l","s","e","y">>,
      <<"D","i","s","n","e","y">>,
      <<"D","u","n","e"," ","L","o","n","d","o","n">>,
      <<"E","l","l","i","k","e","r">>,
      <<"e","m","e","r","g","e"," ","W","o","m","a","n">>,
      <<"F","e","l","l","a"," ","H","a","m","i","l","t","o","n">>,
      <<"F","i","n","e"," ","D","a","y">>,
      <<"F","o","r","e","v","e","r"," ","N","e","w">>,
      <<"F","o","s","s","i","l">>,
      <<"G","A","P">>,
      <<"G","u","e","s","s">>,
      <<"H","e","d","g","r","e","n">>,
      <<"H","o","t"," ","W","h","e","e","l","s">>,
      <<"J","a","n","e"," ","D","e","b","s","t","e","r">>,
      <<"J","o","a","n"," ","W","e","i","s","z">>,
      <<"K","i","n","n","o","n">>,
      <<"L","a"," ","E","n","v","i","r","o">>,
      <<"L","a","c","o","s","t","e">>,
      <<"L","a","u","r","e","n"," ","R","a","l","p","h"," ","L","a","u","r","e","n">>,
      <<"L","e","v","i","'","s">>,
      <<"M","a","d","i","s","o","n"," ","A","c","c","e","s","s","o","r","i","e","s">>,
      <<"M","a","i","n","e"," ","&"," ","C","r","a","w","f","o","r","d">>,
      <<"M","a","r","c","s">>,
      <<"M","a","x","w","e","l","l"," ","&"," ","W","i","l","l","i","a","m","s">>,
      <<"M","i","l","l","e","n","i">>,
      <<"M","i","m","c","o">>,
      <<"M","o","c","h","a">>,
      <<"M","o","r","g","a","n"," ","&"," ","T","a","y","l","o","r">>,
      <<"N","a","k","e","d","v","i","c","e">>,
      <<"N","I","N","A">>,
      <<"N","i","n","e"," ","W","e","s","t">>,
      <<"N","o","v","o"," ","S","h","o","e","s">>,
      <<"O","i","O","i">>,
      <<"O","l","g","a"," ","B","e","r","g">>,
      <<"O","x","f","o","r","d">>,
      <<"P","I","E","R","R","E"," ","C","A","R","D","I","N">>,
      <<"P","I","N","K"," ","I","N","C">>,
      <<"P","i","p","e","r">>,
      <<"P","r","a","i","r","i","e">>,
      <<"R","a","d","l","e","y">>,
      <<"R","a","v","e","l","l","a">>,
      <<"R","e","b","e","c","c","a"," ","M","i","n","k","o","f","f">>,
      <<"R","E","V","I","E","W">>,
      <<"R","o","x","y">>,
      <<"R","V","C","A">>,
      <<"S","a","m","s","o","n","i","t","e">>,
      <<"S","a","n","d","l","e","r">>,
      <<"S","a","s","s"," ","&"," ","B","i","d","e">>,
      <<"S","c","a","l","a">>,
      <<"S","e","a","f","o","l","l","y">>,
      <<"S","e","e","d"," ","H","e","r","i","t","a","g","e">>,
      <<"S","e","n","s","o">>,
      <<"S","t","a","t","u","s"," ","A","n","x","i","e","t","y">>,
      <<"S","t","e","v","e"," ","M","a","d","d","e","n">>,
      <<"T","a","k","i","n","g"," ","S","h","a","p","e">>,
      <<"T","A","T","O","N","K","A">>,
      <<"T","o","k","i","t","o">>,
      <<"T","o","m","m","y"," ","H","i","l","f","i","g","e","r">>,
      <<"T","o","n","i","c">>,
      <<"T","r","e","n","e","r","y">>,
      <<"T","r","e","n","t"," ","N","a","t","h","a","n">>,
      <<"U","n","i","s","o","n">>,
      <<"W","i","s","h","e","s">>,
      <<"W","i","t","c","h","e","r","y">>,
      <<"Y","e","l","l","o","w"," ","D","r","a","m","a">> }

BRAND_CORRECTIONS ==
    { << <<"c","k">>, <<"C","a","l","v","i","n"," ","K","l","e","i","n">> >>,
      << <<"r","m">>, <<"R","e","b","e","c","c","a"," ","M","i","n","k","o","f","f">> >>,
      << <<"t","h">>, <<"T","o","m","m","y"," ","H","i","l","f","i","g","e","r">> >>,
      << <<"p","i","e","r","r","e">>, <<"P","I","E","R","R","E"," ","C","A","R","D","I","N">> >>,
      << <<"c","a","l","v","i","n">>, <<"C","a","l","v","i","n"," ","K","l","e","i","n">> >>,
      << <<"t","o","m","m","y">>, <<"T","o","m","m","y"," ","H","i","l","f","i","g","e","r">> >>,
      << <<"r","a","l","p","h"," ","l","a","u","r","e","n">>, <<"L","a","u","r","e","n"," ","R","a","l","p","h"," ","L","a","u","r","e","n">> >>,
      << <<"a","m","e","r","i","c","a","n"," ","t">>, <<"A","m","e","r","i","c","a","n"," ","T","o","u","r","i","s","t","e","r">> >>,
      << <<"f","o","s","s","i","l"," ","b","a","g">>, <<"F","o","s","s","i","l">> >>,
      << <<"g","u","e","s","s"," ","b","a","g">>, <<"G","u","e","s","s">> >> }

\* BRAND_CORRECTIONS as pairs <<key, canonical brand>>; VALID_BRANDS paired
\* with the lower-cased spelling the exact-match loop compares against.
VALID_BRANDS_lower == { << Lower(vb), vb >> : vb \in VALID_BRANDS }

\* --------------------------------------------------- models/preferences.py

\* Python None; an Optional[float] that is set is the one-element <<x>>
None == <<>>

Some(x) == <<x>>

\* A list field that came out of from_dict as None (the JSON value null):
\* data.get(key, []) gives the default only when the key is absent. The value
\* is kept apart from every list of words.
Null == << <<"None">> >>

\* Python truthiness of a list field: None and [] are false
NonEmpty(list) == list /= Null /\ list /= <<>>

\* UserPreferences(): the dataclass with its field defaults
UserPreferences ==
    [ price_min |-> None, price_max |-> None, brands |-> <<>>,
      categories |-> <<>>, colors |-> <<>>, materials |-> <<>>,
      features |-> <<>> ]

ListFields == {"brands", "categories", "colors", "materials", "features"}

PriceFields == {"price_min", "price_max"}

\* UserPreferences.to_dict: the seven keys, each bound to the field's value
to_dict(p) == [k \in PriceFields \cup ListFields |-> p[k]]

\* UserPreferences.from_dict: data.get(key, default) for each key
from_dict(data) ==
    [ price_min  |-> IF "price_min" \in DOMAIN data THEN data.price_min ELSE None,
      price_max  |-> IF "price_max" \in DOMAIN data THEN data.price_max ELSE None,
      brands     |-> IF "brands" \in DOMAIN data THEN data.brands ELSE <<>>,
      categories |-> IF "categories" \in DOMAIN data THEN data.categories ELSE <<>>,
      colors     |-> IF "colors" \in DOMAIN data THEN data.colors ELSE <<>>,
      materials  |-> IF "materials" \in DOMAIN data THEN data.materials ELSE <<>>,
      features   |-> IF "features" \in DOMAIN data THEN data.features ELSE <<>> ]

\* UserPreferences.has_active_preferences
has_active_preferences(p) ==
    \/ p.price_min /= None
    \/ p.price_max /= None
    \/ p.brands /= <<>>
    \/ p.categories /= <<>>
    \/ p.colors /= <<>>
    \/ p.materials /= <<>>
    \/ p.features /= <<>>

\* UserPreferences.clear: every field back to its default
clear(p) ==
    [ p EXCEPT !.price_min = None, !.price_max = None, !.brands = <<>>,
               !.categories = <<>>, !.colors = <<>>, !.materials = <<>>,
               !.features = <<>> ]

\* ------------------------------------------ services/preference_service.py

RECURSIVE validate_brands_without_corrections(_)
\* _validate_brands with the test of BRAND_CORRECTIONS (lines 65-67) left out
validate_brands_without_corrections(brands) ==
    IF brands = <<>>
    THEN [valid_brands |-> <<>>, invalid_brands |-> <<>>]
    ELSE LET brand == Head(brands)
             brand_lower == Strip(Lower(brand))
             rest == validate_brands_without_corrections(Tail(brands))
         IN  IF \E vb \in VALID_BRANDS_lower : vb[1] = brand_lower
             THEN [rest EXCEPT !.valid_brands =
                      << (CHOOSE vb \in VALID_BRANDS_lower : vb[1] = brand_lower)[2] >> \o @]
             ELSE [rest EXCEPT !.invalid_brands = <<brand>> \o @]

RECURSIVE _validate_brands(_)
\* PreferenceService._validate_brands: (valid_brands, invalid_brands)
_validate_brands(brands) ==
    IF brands = <<>>
    THEN [valid_brands |-> <<>>, invalid_brands |-> <<>>]
    ELSE LET brand == Head(brands)
             brand_lower == Strip(Lower(brand))
             rest == _validate_brands(Tail(brands))
         IN  IF \E vb \in VALID_BRANDS_lower : vb[1] = brand_lower
             THEN [rest EXCEPT !.valid_brands =
                      << (CHOOSE vb \in VALID_BRANDS_lower : vb[1] = brand_lower)[2] >> \o @]
             ELSE IF \E c \in BRAND_CORRECTIONS : c[1] = brand_lower
             THEN [rest EXCEPT !.valid_brands =
                      << (CHOOSE c \in BRAND_CORRECTIONS : c[1] = brand_lower)[2] >> \o @]
             ELSE [rest EXCEPT !.invalid_brands = <<brand>> \o @]

category_corrections ==
    { << <<"t","o","t","e">>, <<"t","o","t","e"," ","b","a","g">> >>,
      << <<"c","r","o","s","s"," ","b","o","d","y">>, <<"c","r","o","s","s","b","o","d","y">> >>,
      << <<"c","r","o","s","s","-","b","o","d","y">>, <<"c","r","o","s","s","b","o","d","y">> >>,
      << <<"s","h","o","u","l","d","e","r">>, <<"s","h","o","u","l","d","e","r"," ","b","a","g">> >>,
      << <<"l","a","p","t","o","p">>, <<"l","a","p","t","o","p"," ","b","a","g">> >>,
      << <<"d","u","f","f","l","e">>, <<"d","u","f","f","l","e"," ","b","a","g">> >>,
      << <<"d","u","f","f","e","l">>, <<"d","u","f","f","l","e"," ","b","a","g">> >> }

RECURSIVE validate_categories_dropping(_)
\* _validate_categories with the else branch of lines 98-99 left out: a token
\* that is no category goes nowhere
validate_categories_dropping(categories) ==
    IF categories = <<>>
    THEN [valid_categories |-> <<>>, features_to_add |-> <<>>]
    ELSE LET category == Strip(Lower(Head(categories)))
             with_bag == category \o <<" ","b","a","g">>
             rest == validate_categories_dropping(Tail(categories))
         IN  IF category \in BAG_CATEGORIES
             THEN [rest EXCEPT !.valid_categories = <<category>> \o @]
             ELSE IF \E c \in category_corrections : c[1] = category
             THEN LET corrected ==
                          (CHOOSE c \in category_corrections : c[1] = category)[2]
                  IN  IF corrected \in BAG_CATEGORIES
                      THEN [rest EXCEPT !.valid_categories = <<corrected>> \o @]
                      ELSE rest
             ELSE IF with_bag \in BAG_CATEGORIES
             THEN [rest EXCEPT !.valid_categories = <<with_bag>> \o @]
             ELSE rest

RECURSIVE _validate_categories(_)
\* PreferenceService._validate_categories: (valid_categories, features_to_add)
_validate_categories(categories) ==
    IF categories = <<>>
    THEN [valid_categories |-> <<>>, features_to_add |-> <<>>]
    ELSE LET category == Strip(Lower(Head(categories)))
             with_bag == category \o <<" ","b","a","g">>
             rest == _validate_categories(Tail(categories))
         IN  IF category \in BAG_CATEGORIES
             THEN [rest EXCEPT !.valid_categories = <<category>> \o @]
             ELSE IF \E c \in category_corrections : c[1] = category
             THEN LET corrected ==
                          (CHOOSE c \in category_corrections : c[1] = category)[2]
                  IN  IF corrected \in BAG_CATEGORIES
                      THEN [rest EXCEPT !.valid_categories = <<corrected>> \o @]
                      ELSE rest
             ELSE IF with_bag \in BAG_CATEGORIES
             THEN [rest EXCEPT !.valid_categories = <<with_bag>> \o @]
             ELSE IF category /= <<"t","o","t","e">>
             THEN [rest EXCEPT !.features_to_add = <<category>> \o @]
             ELSE rest

append_indicators ==
    { <<"a","l","s","o">>,
      <<"a","s"," ","w","e","l","l">>,
      <<"a","d","d","i","t","i","o","n","a","l","l","y">>,
      <<"a","n","d">>,
      <<"t","o","o">>,
      <<"a","l","o","n","g"," ","w","i","t","h">> }

\* _analyze_intent without the lower() of line 104
analyze_intent_case_sensitive(user_input) ==
    \E indicator \in append_indicators : Contains(indicator, user_input)

\* PreferenceService._analyze_intent: TRUE is append mode
_analyze_intent(user_input) ==
    LET user_input_lower == Lower(user_input)
    IN  \E indicator \in append_indicators : Contains(indicator, user_input_lower)

RECURSIVE InsertKeys(_, _)
\* dict.fromkeys(seq): a key seen again keeps its first position
InsertKeys(seq, keys) ==
    IF seq = <<>> THEN keys
    ELSE InsertKeys(Tail(seq),
                    IF InList(Head(seq), keys) THEN keys ELSE Append(keys, Head(seq)))

\* list(dict.fromkeys(seq))
dict_fromkeys(seq) == InsertKeys(seq, <<>>)

\* _merge_preferences with the append branch leaving the extended lists as
\* they are (no duplicate removal)
merge_without_dedup(cur, new_prefs, append_mode) ==
    LET lists ==
          IF append_mode
          THEN [ cur EXCEPT !.brands = @ \o new_prefs.brands,
                            !.categories = @ \o new_prefs.categories,
                            !.colors = @ \o new_prefs.colors,
                            !.materials = @ \o new_prefs.materials,
                            !.features = @ \o new_prefs.features ]
          ELSE [ cur EXCEPT
                   !.brands = IF new_prefs.brands /= <<>> THEN new_prefs.brands ELSE @,
                   !.categories = IF new_prefs.categories /= <<>> THEN new_prefs.categories ELSE @,
                   !.colors = IF new_prefs.colors /= <<>> THEN new_prefs.colors ELSE @,
                   !.materials = IF new_prefs.materials /= <<>> THEN new_prefs.materials ELSE @,
                   !.features = IF new_prefs.features /= <<>> THEN new_prefs.features ELSE @ ]
    IN  [ lists EXCEPT
            !.price_min = IF new_prefs.price_min /= None THEN new_prefs.price_min ELSE @,
            !.price_max = IF new_prefs.price_max /= None THEN new_prefs.price_max ELSE @ ]

\* _merge_preferences with the replace branch assigning every list field
\* unconditionally (an empty delta field erases the current value)
merge_replace_unguarded(cur, new_prefs, append_mode) ==
    LET lists ==
          IF append_mode
          THEN [ cur EXCEPT !.brands = dict_fromkeys(@ \o new_prefs.brands),
                            !.categories = dict_fromkeys(@ \o new_prefs.categories),
                            !.colors = dict_fromkeys(@ \o new_prefs.colors),
                            !.materials = dict_fromkeys(@ \o new_prefs.materials),
                            !.features = dict_fromkeys(@ \o new_prefs.features) ]
          ELSE [ cur EXCEPT !.brands = new_prefs.brands,
                            !.categories = new_prefs.categories,
                            !.colors = new_prefs.colors,
                            !.materials = new_prefs.materials,
                            !.features = new_prefs.features ]
    IN  [ lists EXCEPT
            !.price_min = IF new_prefs.price_min /= None THEN new_prefs.price_min ELSE @,
            !.price_max = IF new_prefs.price_max /= None THEN new_prefs.price_max ELSE @ ]

\* _merge_preferences with the price update tested by truthiness (`if
\* new_prefs.price_min:`), so that a bound of 0 is taken for "not given"
merge_price_truthy(cur, new_prefs, append_mode) ==
    LET lists ==
          IF append_mode
          THEN [ cur EXCEPT !.brands = dict_fromkeys(@ \o new_prefs.brands),
                            !.categories = dict_fromkeys(@ \o new_prefs.categories),
                            !.colors = dict_fromkeys(@ \o new_prefs.colors),
                            !.materials = dict_fromkeys(@ \o new_prefs.materials),
                            !.features = dict_fromkeys(@ \o new_prefs.features) ]
          ELSE [ cur EXCEPT
                   !.brands = IF new_prefs.brands /= <<>> THEN new_prefs.brands ELSE @,
                   !.categories = IF new_prefs.categories /= <<>> THEN new_prefs.categories ELSE @,
                   !.colors = IF new_prefs.colors /= <<>> THEN new_prefs.colors ELSE @,
                   !.materials = IF new_prefs.materials /= <<>> THEN new_prefs.materials ELSE @,
                   !.features = IF new_prefs.features /= <<>> THEN new_prefs.features ELSE @ ]
    IN  [ lists EXCEPT
            !.price_min = IF new_prefs.price_min /= None /\ new_prefs.price_min /= Some(0)
                          THEN new_prefs.price_min ELSE @,
            !.price_max = IF new_prefs.price_max /= None /\ new_prefs.price_max /= Some(0)
                          THEN new_prefs.price_max ELSE @ ]

\* PreferenceService._merge_preferences: the record after the merge
_merge_preferences(cur, new_prefs, append_mode) ==
    LET lists ==
          IF append_mode
          THEN [ cur EXCEPT !.brands = dict_fromkeys(@ \o new_prefs.brands),
                            !.categories = dict_fromkeys(@ \o new_prefs.categories),
                            !.colors = dict_fromkeys(@ \o new_prefs.colors),
                            !.materials = dict_fromkeys(@ \o new_prefs.materials),
                            !.features = dict_fromkeys(@ \o new_prefs.features) ]
          ELSE [ cur EXCEPT
                   !.brands = IF new_prefs.brands /= <<>> THEN new_prefs.brands ELSE @,
                   !.categories = IF new_prefs.categories /= <<>> THEN new_prefs.categories ELSE @,
                   !.colors = IF new_prefs.colors /= <<>> THEN new_prefs.colors ELSE @,
                   !.materials = IF new_prefs.materials /= <<>> THEN new_prefs.materials ELSE @,
                   !.features = IF new_prefs.features /= <<>> THEN new_prefs.features ELSE @ ]
    IN  [ lists EXCEPT
            !.price_min = IF new_prefs.price_min /= None THEN new_prefs.price_min ELSE @,
            !.price_max = IF new_prefs.price_max /= None THEN new_prefs.price_max ELSE @ ]

\* The list objects the record held before _merge_preferences, as they are
\* after it: append mode extends them in place (lines 110-114) and only then
\* rebinds each field to a fresh deduplicated list; replace mode rebinds the
\* fields and leaves the old lists alone. Prices are immutable values.
lists_held_before(cur, new_prefs, append_mode) ==
    IF append_mode
    THEN [ cur EXCEPT !.brands = @ \o new_prefs.brands,
                      !.categories = @ \o new_prefs.categories,
                      !.colors = @ \o new_prefs.colors,
                      !.materials = @ \o new_prefs.materials,
                      !.features = @ \o new_prefs.features ]
    ELSE cur

\* _validate_and_merge without lines 35-46: the delta goes to the merge as
\* the collaborator wrote it
new_prefs_unvalidated(new_prefs) == new_prefs

\* _validate_and_merge, lines 35-46: new_prefs as validated in place
validated(new_prefs) ==
    LET b == IF NonEmpty(new_prefs.brands)
             THEN _validate_brands(new_prefs.brands).valid_brands
             ELSE new_prefs.brands
        c == IF NonEmpty(new_prefs.categories)
             THEN _validate_categories(new_prefs.categories)
             ELSE [valid_categories |-> new_prefs.categories, features_to_add |-> <<>>]
    IN  [ new_prefs EXCEPT !.brands = b,
                           !.categories = c.valid_categories,
                           !.features = IF @ = Null THEN @ ELSE @ \o c.features_to_add ]

\* line 46: new_prefs.features.extend(...) runs whenever categories is
\* non-empty, and raises AttributeError when features is None
validation_raises(new_prefs) ==
    NonEmpty(new_prefs.categories) /\ new_prefs.features = Null

\* the order in which lines 110-114 extend the record's lists
ExtendOrder == << "brands", "categories", "colors", "materials", "features" >>

\* lines 110-114 raise TypeError at the first field of the delta that is
\* None (list.extend(None)); replace mode only tests the fields' truth
merge_raises(new_prefs, append_mode) ==
    append_mode /\ \E i \in DOMAIN ExtendOrder : new_prefs[ExtendOrder[i]] = Null

\* The record when lines 110-114 have raised: the lists before the first
\* None field of the delta are extended in place, nothing is deduplicated
\* (lines 117-121) and no price is taken (lines 136-139).
extended_until_raise(cur, new_prefs) ==
    LET stop == CHOOSE i \in DOMAIN ExtendOrder :
                    /\ new_prefs[ExtendOrder[i]] = Null
                    /\ \A j \in 1..(i - 1) : new_prefs[ExtendOrder[j]] /= Null
        extended(i) == IF i < stop THEN cur[ExtendOrder[i]] \o new_prefs[ExtendOrder[i]]
                       ELSE cur[ExtendOrder[i]]
    IN  [ cur EXCEPT !.brands = extended(1), !.categories = extended(2),
                     !.colors = extended(3), !.materials = extended(4),
                     !.features = extended(5) ]

\* the delta as the replace branch and a complete append see it: a None
\* list field is false at lines 124-133
none_as_empty(new_prefs) ==
    [ new_prefs EXCEPT !.brands = IF @ = Null THEN <<>> ELSE @,
                       !.categories = IF @ = Null THEN <<>> ELSE @,
                       !.colors = IF @ = Null THEN <<>> ELSE @,
                       !.materials = IF @ = Null THEN <<>> ELSE @,
                       !.features = IF @ = Null THEN <<>> ELSE @ ]

\* PreferenceService._validate_and_merge: the record when the call is over,
\* whether it returned or raised
_validate_and_merge(cur, new_prefs, user_input) ==
    LET append_mode == _analyze_intent(user_input)
    IN  IF validation_raises(new_prefs) THEN cur
        ELSE IF merge_raises(validated(new_prefs), append_mode)
        THEN extended_until_raise(cur, validated(new_prefs))
        ELSE _merge_preferences(cur, none_as_empty(validated(new_prefs)), append_mode)

\* PreferenceService.update_preferences: the record after the call.
\* chain: azure_service.preference_chain is set. response: what lines 17-24
\* and the validations of _validate_and_merge (lines 35-46) make of the
\* collaborator's answer, [raises |-> TRUE] when preference_chain.run raised,
\* its text was not JSON, or from_dict or the validations raised, else
\* [raises |-> FALSE, new_prefs |-> the validated delta]. append_mode:
\* _analyze_intent(user_input), line 49. An exception of _merge_preferences
\* is caught at line 29 like the others, with the record as it then stands.
update_preferences(cur, chain, response, append_mode) ==
    IF ~chain THEN cur
    ELSE IF response.raises THEN cur
    ELSE IF merge_raises(response.new_prefs, append_mode)
    THEN extended_until_raise(cur, response.new_prefs)
    ELSE _merge_preferences(cur, none_as_empty(response.new_prefs), append_mode)

\* the try block of update_preferences (lines 16-27) ended in the except
\* clause of line 29
update_raised(chain, response, append_mode) ==
    chain /\ (response.raises \/ merge_raises(response.new_prefs, append_mode))

\* What a reference taken to the record's lists before update_preferences
\* (to_dict().copy() is a shallow copy) shows after the call.
held_before_update(cur, chain, response, append_mode) ==
    IF ~chain THEN cur
    ELSE IF response.raises THEN cur
    ELSE IF merge_raises(response.new_prefs, append_mode)
    THEN extended_until_raise(cur, response.new_prefs)
    ELSE lists_held_before(cur, none_as_empty(response.new_prefs), append_mode)

\* one part of the summary line: the text before the values and the values
Part(label, nums, items) == [label |-> label, nums |-> nums, items |-> items]

\* Python truthiness of an Optional number: None and 0 are false
Truthy(price) == price /= None /\ price /= Some(0)

\* PreferenceService.get_summary: the parts joined by " | ", or the one part
\* "No active preferences set"
get_summary(p) ==
    LET price == IF Truthy(p.price_min) /\ Truthy(p.price_max)
                 THEN << Part("Price: $min-$max", p.price_min \o p.price_max, <<>>) >>
                 ELSE IF Truthy(p.price_min)
                 THEN << Part("Price: Above $", p.price_min, <<>>) >>
                 ELSE IF Truthy(p.price_max)
                 THEN << Part("Price: Under $", p.price_max, <<>>) >>
                 ELSE <<>>
        brands == IF p.brands /= <<>> THEN << Part("Brands: ", <<>>, p.brands) >> ELSE <<>>
        categories == IF p.categories /= <<>>
                      THEN << Part("Categories: ", <<>>, p.categories) >> ELSE <<>>
        colors == IF p.colors /= <<>> THEN << Part("Colors: ", <<>>, p.colors) >> ELSE <<>>
        materials == IF p.materials /= <<>>
                     THEN << Part("Materials: ", <<>>, p.materials) >> ELSE <<>>
        parts == price \o brands \o categories \o colors \o materials
    IN  IF parts /= <<>> THEN parts
        ELSE << Part("No active preferences set", <<>>, <<>>) >>

\* ------------------------------------------------------ utils/validators.py

shopping_terms ==
    { <<"b","a","g">>,
      <<"h","a","n","d","b","a","g">>,
      <<"p","u","r","s","e">>,
      <<"t","o","t","e">>,
      <<"b","a","c","k","p","a","c","k">>,
      <<"c","l","u","t","c","h">>,
      <<"w","a","l","l","e","t">>,
      <<"s","h","o","p","p","i","n","g">>,
      <<"b","u","y">>,
      <<"p","u","r","c","h","a","s","e">>,
      <<"p","r","i","c","e">>,
      <<"c","o","s","t">>,
      <<"d","e","l","i","v","e","r","y">>,
      <<"s","h","i","p","p","i","n","g">>,
      <<"b","r","a","n","d">>,
      <<"l","e","a","t","h","e","r">>,
      <<"c","a","n","v","a","s">>,
      <<"p","r","o","d","u","c","t">>,
      <<"i","t","e","m">>,
      <<"s","t","o","r","e">> }

common_phrases ==
    { <<"h","i">>,
      <<"h","e","l","l","o">>,
      <<"t","h","a","n","k">>,
      <<"b","y","e">>,
      <<"h","e","l","p">>,
      <<"c","l","e","a","r">>,
      <<"r","e","s","e","t">> }

\* is_relevant_to_shopping: some shopping or courtesy term is a substring
is_relevant_to_shopping(user_input) ==
    LET user_input_lower == Lower(user_input)
    IN  \E term \in shopping_terms \cup common_phrases :
            Contains(term, user_input_lower)

\* ------------------------------------------------ services/search_service.py

search_keywords ==
    { <<"s","h","o","w">>,
      <<"f","i","n","d">>,
      <<"s","e","a","r","c","h">>,
      <<"l","o","o","k">>,
      <<"r","e","c","o","m","m","e","n","d">>,
      <<"s","u","g","g","e","s","t">>,
      <<"w","a","n","t">>,
      <<"n","e","e","d">>,
      <<"d","i","s","p","l","a","y">>,
      <<"s","e","e">>,
      <<"b","r","o","w","s","e">>,
      <<"s","h","o","p","p","i","n","g">>,
      <<"b","u","y">>,
      <<"p","u","r","c","h","a","s","e">>,
      <<"g","e","t"," ","m","e">>,
      <<"w","h","a","t"," ","a","b","o","u","t">>,
      <<"h","o","w"," ","a","b","o","u","t">>,
      <<"a","n","y">>,
      <<"d","o"," ","y","o","u"," ","h","a","v","e">> }

product_terms ==
    { <<"b","a","g">>,
      <<"h","a","n","d","b","a","g">>,
      <<"p","u","r","s","e">>,
      <<"t","o","t","e">>,
      <<"b","a","c","k","p","a","c","k">>,
      <<"c","l","u","t","c","h">>,
      <<"w","a","l","l","e","t">>,
      <<"c","r","o","s","s","b","o","d","y">>,
      <<"s","h","o","u","l","d","e","r">>,
      <<"m","e","s","s","e","n","g","e","r">>,
      <<"s","a","t","c","h","e","l">>,
      <<"b","r","i","e","f","c","a","s","e">> }

refinement_terms ==
    { <<"l","e","a","t","h","e","r">>,
      <<"c","a","n","v","a","s">>,
      <<"b","l","a","c","k">>,
      <<"b","r","o","w","n">>,
      <<"c","h","e","a","p">>,
      <<"e","x","p","e","n","s","i","v","e">>,
      <<"s","m","a","l","l">>,
      <<"l","a","r","g","e">> }

\* should_search_products with the word count of line 75 tested whether
\* preferences are active or not
should_search_short_always(user_input, has_preferences) ==
    LET user_input_lower == Lower(user_input)
    IN  \/ \E keyword \in search_keywords : Contains(keyword, user_input_lower)
        \/ has_preferences
                /\ \E term \in refinement_terms : Contains(term, user_input_lower)
        \/ WordCount(user_input) <= 3
        \/ \E term \in product_terms : Contains(term, user_input_lower)

\* SearchService.should_search_products. The function returns True on a hit
\* and falls off its end otherwise: None, which the caller tests for truth.
should_search_products(user_input, has_preferences) ==
    LET user_input_lower == Lower(user_input)
    IN  IF \E keyword \in search_keywords : Contains(keyword, user_input_lower)
        THEN TRUE
        ELSE IF has_preferences
                /\ (\/ \E term \in refinement_terms : Contains(term, user_input_lower)
                    \/ WordCount(user_input) <= 3)
        THEN TRUE
        ELSE IF \E term \in product_terms : Contains(term, user_input_lower)
        THEN TRUE
        ELSE FALSE

\* -------------------------------------------- workflows/conversation_flow.py

reset_phrases ==
    { <<"c","l","e","a","r"," ","p","r","e","f","e","r","e","n","c","e","s">>,
      <<"r","e","s","e","t"," ","p","r","e","f","e","r","e","n","c","e","s">>,
      <<"s","t","a","r","t"," ","o","v","e","r">> }

\* the test at the head of _handle_general_conversation
is_reset_request(user_question) ==
    LET lowered == Lower(user_question)
    IN  \E phrase \in reset_phrases : Contains(phrase, lowered)

\* state["answer"]: the fixed text, and for the preference-update answer the
\* summary put into it and whether product cards follow
Answer(text, summary, products) ==
    [text |-> text, summary |-> summary, products |-> products]

NoAnswer == Answer("", <<>>, FALSE)

RedirectAnswer ==
    Answer("I'm here to help with shopping-related questions like products, prices, or bags. Let me know how I can assist you with that!",
           <<>>, FALSE)

UpdatedAnswer(summary, found) ==
    IF found
    THEN Answer("Updated preferences to: {summary} Here are products matching your updated criteria:",
                summary, TRUE)
    ELSE Answer("Updated preferences to: {summary} I couldn't find any products matching these exact criteria. Try adjusting your preferences.",
                summary, FALSE)

ProductsAnswer ==
    Answer("Here are some products that match your criteria, sorted by price (highest to lowest):",
           <<>>, TRUE)

NoProductsAnswer ==
    Answer("I couldn't find any products matching your criteria. Try adjusting your preferences.",
           <<>>, FALSE)

SearchErrorAnswer ==
    Answer("Sorry, I encountered an error while searching. Please try again.", <<>>, FALSE)

ClearedAnswer ==
    Answer("Your preferences have been cleared! Feel free to set new ones.", <<>>, FALSE)

CannedAnswer ==
    Answer("I'm here to help you find bags and accessories! What are you looking for?",
           <<>>, FALSE)

\* ------------------------------------------------------------ the inputs

\* 'show me red bags'
U_show_me_red_bags == <<"s","h","o","w"," ","m","e"," ","r","e","d"," ","b","a","g","s">>

\* 'and a tote too'
U_and_a_tote_too == <<"a","n","d"," ","a"," ","t","o","t","e"," ","t","o","o">>

\* 'start over'
U_start_over == <<"s","t","a","r","t"," ","o","v","e","r">>

\* 'clear preferences'
U_clear_preferences == <<"c","l","e","a","r"," ","p","r","e","f","e","r","e","n","c","e","s">>

\* 'what is the weather'
U_what_is_the_weather == <<"w","h","a","t"," ","i","s"," ","t","h","e"," ","w","e","a","t","h","e","r">>

\* 'hello there my good friend'
U_hello_there == <<"h","e","l","l","o"," ","t","h","e","r","e"," ","m","y"," ","g","o","o","d"," ","f","r","i","e","n","d">>

\* 'please reset preferences for me now'
U_please_reset == <<"p","l","e","a","s","e"," ","r","e","s","e","t"," ","p","r","e","f","e","r","e","n","c","e","s"," ","f","o","r"," ","m","e"," ","n","o","w">>

\* what the user types
Utterances ==
    { U_show_me_red_bags,
      U_and_a_tote_too,
      U_start_over,
      U_clear_preferences,
      U_what_is_the_weather,
      U_hello_there,
      U_please_reset }

\* the words the collaborator's deltas are made of
W_red == <<"r","e","d">>

W_blue == <<"b","l","u","e">>

W_black == <<"b","l","a","c","k">>

W_ck == <<"c","k">>

W_cross_body == <<"c","r","o","s","s","-","b","o","d","y">>

W_hobo == <<"h","o","b","o">>

W_leather == <<"l","e","a","t","h","e","r">>

W_canvas == <<"c","a","n","v","a","s">>

W_nylon == <<"n","y","l","o","n">>

W_Guess == <<"G","u","e","s","s">>

W_Fossil == <<"F","o","s","s","i","l">>

W_Calvin_Klein == <<"C","a","l","v","i","n"," ","K","l","e","i","n">>

W_tote == <<"t","o","t","e">>

W_clutch == <<"c","l","u","t","c","h">>

W_crossbody == <<"c","r","o","s","s","b","o","d","y">>

W_zipper == <<"z","i","p","p","e","r">>

W_pockets == <<"p","o","c","k","e","t","s">>

W_strap == <<"s","t","r","a","p">>

\* 'xyz', no brand of the vocabulary
W_xyz == <<"x","y","z">>

\* ' GUESS ', the brand Guess in capitals between blanks
W_GUESS_padded == <<" ","G","U","E","S","S"," ">>

\* 'Sparkly', no category of the vocabulary
W_Sparkly == <<"S","p","a","r","k","l","y">>
\* What preference_chain.run can give back on one call: it raises (or its
\* text is not JSON), or the text parses to one of these objects; one of
\* them has "colors": null.
ExtractionResponses ==
    << [raises |-> TRUE],
       [raises |-> FALSE, data |-> [price_min |-> None]],
       [raises |-> FALSE, data |-> [colors |-> <<W_red>>]],
       [raises |-> FALSE, data |-> [colors |-> <<W_red, W_blue>>,
                                    price_max |-> Some(100)]],
       [raises |-> FALSE, data |-> [brands |-> <<W_ck>>,
                                    categories |-> <<W_cross_body>>]],
       [raises |-> FALSE, data |-> [categories |-> <<W_hobo>>,
                                    materials |-> <<W_leather>>,
                                    price_min |-> Some(50)]],
       [raises |-> FALSE, data |-> [brands |-> <<W_ck>>, colors |-> Null]],
       [raises |-> FALSE, data |-> [colors |-> <<W_blue, W_blue>>,
                                    features |-> <<W_blue>>,
                                    price_min |-> Some(150)]],
       [raises |-> FALSE, data |-> [brands |-> <<W_xyz, W_GUESS_padded>>,
                                    categories |-> <<W_tote, W_Sparkly>>]] >>

\* Each response after json.loads, UserPreferences.from_dict and the
\* validations of _validate_and_merge, computed once
Extracted ==
    [ i \in DOMAIN ExtractionResponses |->
        IF ExtractionResponses[i].raises
        THEN [raises |-> TRUE, new_prefs |-> UserPreferences]
        ELSE LET new_preferences == from_dict(ExtractionResponses[i].data)
             IN  IF validation_raises(new_preferences)
                 THEN [raises |-> TRUE, new_prefs |-> UserPreferences]
                 ELSE [raises |-> FALSE, new_prefs |-> validated(new_preferences)] ]

\* The lexical tests the turn makes on its utterance, computed once
Lexical ==
    [ u \in Utterances |->
        [ relevant |-> is_relevant_to_shopping(u),
          append_mode |-> _analyze_intent(u),
          should_search |-> [has \in BOOLEAN |-> should_search_products(u, has)],
          reset |-> is_reset_request(u) ] ]

\* What one call of SearchService.search_products can end in: the retrieval
\* raises, or the filtered and ranked list is empty, or it holds products.
\* Without a vector store the call returns [] before any retrieval.
SearchResults(store) ==
    IF store
    THEN { [raises |-> TRUE, docs |-> <<>>],
           [raises |-> FALSE, docs |-> <<>>],
           [raises |-> FALSE, docs |-> <<"doc">>] }
    ELSE { [raises |-> FALSE, docs |-> <<>>] }

\* What conversation_chain.invoke can end in: it raises, or gives a text,
\* which line 157 takes as it is, the empty text too.
\* Without a chain nothing is invoked.
ReplyResults(chain) ==
    IF chain
    THEN { [raises |-> TRUE, text |-> ""],
           [raises |-> FALSE, text |-> ""],
           [raises |-> FALSE,
            text |-> "Happy to help! What kind of bag do you have in mind?"] }
    ELSE { [raises |-> TRUE, text |-> ""] }

\* the number of turns of a session that are explored
MaxTurns == 1

\* ----------------------------------------------------------- the state

VARIABLES
    preference_chain,     \* azure_service.preference_chain is set
    conversation_chain,   \* azure_service.conversation_chain is set
    vectorstore,          \* vector_service.vectorstore is set
    current_preferences,  \* preference_service.current_preferences
    memory,               \* workflow.memory.chat_memory.messages
    state,                \* the BotState of the turn in progress
    pc,                   \* where the turn in progress stands
    turns,                \* turns completed
    obs,                  \* what happened in the turn in progress
    m                     \* the operation under test (MergeSpec, FilterSpec,
                          \* SearchSpec, ValidateSpec); the clear handler (ClearSpec)

vars ==
    << preference_chain, conversation_chain, vectorstore, current_preferences,
       memory, state, pc, turns, obs, m >>

\* the BotState process_message starts a turn with
BotState(question) ==
    [question |-> question, answer |-> NoAnswer, should_retrieve |-> FALSE]

NoState == BotState(<<>>)

\* the turn's record: the Preference Record and the chat history the turn
\* started with, what _handle_preference_update saw, which branch wrote the
\* answer, and how often the collaborators were called
NoObs ==
    [ start_prefs |-> UserPreferences, start_memory |-> <<>>,
      merge_changed |-> FALSE, before |-> UserPreferences,
      updated |-> UserPreferences, preference_updated |-> FALSE,
      answered_by |-> "none", searches |-> 0, extractions |-> 0,
      update_raised |-> FALSE, reply_failed |-> FALSE ]

NoMerge ==
    [ stage |-> "none", cur |-> UserPreferences, new_prefs |-> UserPreferences,
      append_mode |-> FALSE, once |-> UserPreferences, twice |-> UserPreferences ]

HumanMessage(content) == [type |-> "human", content |-> content]

AIMessage(content) == [type |-> "ai", content |-> content]

\* the application as _initialize_services leaves it: the collaborators
\* configured or not (the two chains are built together from the one llm),
\* an empty Preference Record, an empty chat history
Init ==
    /\ preference_chain \in BOOLEAN
    /\ conversation_chain = preference_chain
    /\ vectorstore \in BOOLEAN
    /\ current_preferences = UserPreferences
    /\ memory = <<>>
    /\ state = NoState
    /\ pc = "idle"
    /\ turns = 0
    /\ obs = NoObs
    /\ m = NoMerge

\* ConversationWorkflow.process_message, up to agent.invoke(state)
process_message(user_input) ==
    /\ pc = "idle"
    /\ turns < MaxTurns
    /\ state' = BotState(user_input)
    /\ obs' = [NoObs EXCEPT !.start_prefs = current_preferences,
                            !.start_memory = memory]
    /\ pc' = "process_and_route"
    /\ UNCHANGED << preference_chain, conversation_chain, vectorstore,
                    current_preferences, memory, turns, m >>

\* ConversationWorkflow._process_input_and_route, the graph's entry node;
\* response is what the extraction collaborator gives if it is called
_process_input_and_route(response) ==
    /\ pc = "process_and_route"
    /\ LET user_input == state.question
           merged == update_preferences(current_preferences, preference_chain,
                                        response, Lexical[user_input].append_mode)
       IN  IF ~Lexical[user_input].relevant
           THEN /\ state' = [state EXCEPT !.answer = RedirectAnswer,
                                          !.should_retrieve = FALSE]
                /\ obs' = [obs EXCEPT !.answered_by = "out_of_domain"]
                /\ UNCHANGED current_preferences
           ELSE /\ current_preferences' = merged
                /\ state' = [state EXCEPT !.should_retrieve =
                                Lexical[user_input].should_search[
                                    has_active_preferences(merged)]]
                /\ obs' = [obs EXCEPT
                             !.merge_changed = (merged /= current_preferences),
                             !.extractions = IF preference_chain THEN @ + 1 ELSE @]
    /\ pc' = "search_or_respond"
    /\ UNCHANGED << preference_chain, conversation_chain, vectorstore, memory,
                    turns, m >>

\* ConversationWorkflow._handle_product_search, followed by lines 72-76;
\* found is the outcome of search_products
_handle_product_search(found, seen) ==
    LET answer == IF found.raises THEN SearchErrorAnswer
                  ELSE IF found.docs = <<>> THEN NoProductsAnswer
                  ELSE ProductsAnswer
    IN  /\ current_preferences' = seen.updated
        /\ state' = [state EXCEPT !.answer = answer]
        /\ memory' = memory \o << HumanMessage(state.question), AIMessage(answer) >>
        /\ obs' = [seen EXCEPT !.answered_by = "product_search",
                               !.searches = @ + 1]

\* _handle_general_conversation without the except clause of lines 158-160
\* and the else of line 162: a chain that is missing or raises leaves the
\* answer unwritten
general_conversation_uncaught(reply, seen) ==
    LET reset == Lexical[state.question].reset
        answer == IF reset THEN ClearedAnswer
                  ELSE IF conversation_chain /\ ~reply.raises
                  THEN Answer(reply.text, <<>>, FALSE)
                  ELSE state.answer
    IN  /\ current_preferences' = IF reset THEN clear(seen.updated) ELSE seen.updated
        /\ state' = [state EXCEPT !.answer = answer]
        /\ memory' = memory \o << HumanMessage(state.question), AIMessage(answer) >>
        /\ obs' = [seen EXCEPT
                     !.answered_by = IF reset THEN "reset" ELSE "general_conversation",
                     !.reply_failed = ~reset /\ (~conversation_chain \/ reply.raises)]

\* ConversationWorkflow._handle_general_conversation, followed by lines
\* 72-76; reply is the outcome of conversation_chain.invoke
_handle_general_conversation(reply, seen) ==
    LET reset == Lexical[state.question].reset
        answer == IF reset THEN ClearedAnswer
                  ELSE IF conversation_chain /\ ~reply.raises
                  THEN Answer(reply.text, <<>>, FALSE)
                  ELSE CannedAnswer
    IN  /\ current_preferences' = IF reset THEN clear(seen.updated) ELSE seen.updated
        /\ state' = [state EXCEPT !.answer = answer]
        /\ memory' = memory \o << HumanMessage(state.question), AIMessage(answer) >>
        /\ obs' = [seen EXCEPT
                     !.answered_by = IF reset THEN "reset" ELSE "general_conversation",
                     !.reply_failed = ~reset /\ (~conversation_chain \/ reply.raises)]

\* lines 67-76 of _execute_search_or_respond
search_or_converse(seen) ==
    IF state.should_retrieve
    THEN \E found \in SearchResults(vectorstore) :
             _handle_product_search(found, seen)
    ELSE \E reply \in ReplyResults(conversation_chain) :
             _handle_general_conversation(reply, seen)

\* ConversationWorkflow._execute_search_or_respond, the node the graph's one
\* edge leads to, with _handle_preference_update (lines 78-114) in it;
\* response is the extraction collaborator's answer to the call of line 82
_execute_search_or_respond(response) ==
    /\ pc = "search_or_respond"
    /\ LET append_mode == Lexical[state.question].append_mode
           before == current_preferences
           previous_prefs == to_dict(held_before_update(before, preference_chain,
                                                        response, append_mode))
           updated_prefs == update_preferences(before, preference_chain,
                                               response, append_mode)
           preference_updated ==
               \E key \in DOMAIN previous_prefs :
                   previous_prefs[key] /= to_dict(updated_prefs)[key]
           seen == [obs EXCEPT
                      !.before = before,
                      !.updated = updated_prefs,
                      !.preference_updated = preference_updated,
                      !.merge_changed = @ \/ (updated_prefs /= before),
                      !.update_raised = update_raised(preference_chain, response,
                                                      append_mode),
                      !.extractions = IF preference_chain THEN @ + 1 ELSE @]
       IN  IF preference_updated
           THEN \E found \in SearchResults(vectorstore) :
                    IF found.raises
                    THEN \* line 111: the failure is swallowed, False returned
                         search_or_converse([seen EXCEPT !.searches = @ + 1])
                    ELSE \* lines 96-109, and the return of line 65
                         /\ current_preferences' = updated_prefs
                         /\ state' = [state EXCEPT !.answer =
                                UpdatedAnswer(get_summary(updated_prefs),
                                              found.docs /= <<>>)]
                         /\ memory' = memory
                         /\ obs' = [seen EXCEPT
                                      !.answered_by = "preference_update",
                                      !.searches = @ + 1]
           ELSE search_or_converse(seen)
    /\ pc' = "done"
    /\ UNCHANGED << preference_chain, conversation_chain, vectorstore, turns, m >>

\* ConversationWorkflow.process_message, `return result["answer"]`
process_message_return ==
    /\ pc = "done"
    /\ pc' = "idle"
    /\ turns' = turns + 1
    /\ state' = NoState
    /\ obs' = NoObs
    /\ UNCHANGED << preference_chain, conversation_chain, vectorstore,
                    current_preferences, memory, m >>

\* GradioInterface.clear_chat, between two turns
clear_chat ==
    /\ pc = "idle"
    /\ current_preferences' = clear(current_preferences)
    /\ memory' = <<>>
    /\ UNCHANGED << preference_chain, conversation_chain, vectorstore, state,
                    pc, turns, obs, m >>

Next ==
    \/ \E user_input \in Utterances : process_message(user_input)
    \/ \E i \in DOMAIN Extracted : _process_input_and_route(Extracted[i])
    \/ \E i \in DOMAIN Extracted : _execute_search_or_respond(Extracted[i])
    \/ process_message_return
    \/ clear_chat

Spec == Init /\ [][Next]_vars

\* ------------------------------------------- _merge_preferences on its own

\* the longest list drawn for a field of the record or of the delta
MaxLen == 2

\* all lists over S of at most n entries
SeqsUpTo(S, n) == UNION { [1..k -> S] : k \in 0..n }

\* vocabulary brands and categories as validation leaves them, and the free
\* words of the other fields
FieldWords ==
    [ brands     |-> {W_Guess, W_Fossil, W_Calvin_Klein},
      categories |-> {W_tote, W_clutch, W_crossbody},
      colors     |-> {W_red, W_blue, W_black},
      materials  |-> {W_leather, W_canvas, W_nylon},
      features   |-> {W_zipper, W_pockets, W_strap} ]

Prices == {None, Some(0), Some(100), Some(200)}

\* a record with every field set
SetRecord ==
    [ price_min |-> Some(100), price_max |-> Some(200), brands |-> <<W_Guess>>,
      categories |-> <<W_tote>>, colors |-> <<W_black, W_red>>,
      materials |-> <<W_leather>>, features |-> <<W_zipper>> ]

\* a validated delta that names some fields and leaves others out
SetDelta ==
    [ price_min |-> None, price_max |-> Some(100), brands |-> <<W_Fossil>>,
      categories |-> <<W_tote, W_clutch>>, colors |-> <<W_red, W_blue>>,
      materials |-> <<>>, features |-> <<W_zipper, W_zipper>> ]

\* A merge to try: the record, the delta and the mode, and room for the
\* record after one merge and after the same merge again.
MergeInput(c, n, mode) ==
    [ stage |-> "input", cur |-> c, new_prefs |-> n, append_mode |-> mode,
      once |-> UserPreferences, twice |-> UserPreferences ]

\* The merges tried: a record and a delta that are empty or set, with one
\* list field of both running over every list of at most MaxLen words, or
\* with the price bounds of both running over Prices; in both modes.
MergeInit ==
    /\ preference_chain = TRUE
    /\ conversation_chain = TRUE
    /\ vectorstore = TRUE
    /\ current_preferences = UserPreferences
    /\ memory = <<>>
    /\ state = NoState
    /\ pc = "idle"
    /\ turns = 0
    /\ obs = NoObs
    /\ \E c \in {UserPreferences, SetRecord}, n \in {UserPreferences, SetDelta},
          mode \in BOOLEAN :
          \/ \E f \in ListFields :
                \E a \in SeqsUpTo(FieldWords[f], MaxLen),
                   b \in SeqsUpTo(FieldWords[f], MaxLen) :
                   m = MergeInput([c EXCEPT ![f] = a], [n EXCEPT ![f] = b], mode)
          \/ \E lo \in Prices, hi \in Prices, dlo \in Prices, dhi \in Prices :
                m = MergeInput([c EXCEPT !.price_min = lo, !.price_max = hi],
                               [n EXCEPT !.price_min = dlo, !.price_max = dhi],
                               mode)

\* _merge_preferences(new_prefs, append_mode) on the record
merge_once ==
    /\ m.stage = "input"
    /\ m' = [m EXCEPT !.stage = "once",
                      !.once = _merge_preferences(m.cur, m.new_prefs, m.append_mode)]
    /\ UNCHANGED << preference_chain, conversation_chain, vectorstore,
                    current_preferences, memory, state, pc, turns, obs >>

\* the same delta merged again, in the same mode, into the merged record
merge_twice ==
    /\ m.stage = "once"
    /\ m' = [m EXCEPT !.stage = "twice",
                      !.twice = _merge_preferences(m.once, m.new_prefs, m.append_mode)]
    /\ UNCHANGED << preference_chain, conversation_chain, vectorstore,
                    current_preferences, memory, state, pc, turns, obs >>

MergeNext == merge_once \/ merge_twice

MergeSpec == MergeInit /\ [][MergeNext]_vars

\* ------------------------------------------------------------- the claims

\* the turn has run both nodes of the graph and is about to return
TurnDone == pc = "done"

\* the utterance of the turn is out-of-domain
OutOfDomainTurn == TurnDone /\ ~is_relevant_to_shopping(state.question)

\* C1: a turn in which a merge of the extracted delta changed the Preference
\* Record, so that the record at the end of the turn differs from the record
\* at its start, is answered by the preference-update branch.
C1_ChangedRecordAnsweredAsUpdate ==
    (TurnDone /\ obs.merge_changed /\ current_preferences /= obs.start_prefs)
        => obs.answered_by = "preference_update"

\* C2: the response to an out-of-domain utterance is the fixed redirect
\* message.
C2_OutOfDomainGetsRedirect ==
    OutOfDomainTurn => state.answer = RedirectAnswer

\* C3: an out-of-domain turn leaves the Preference Record as it was and
\* makes no extraction call.
C3_OutOfDomainKeepsRecord ==
    OutOfDomainTurn =>
        (current_preferences = obs.start_prefs /\ obs.extractions = 0)

\* C4: an out-of-domain turn appends nothing to the chat history.
C4_OutOfDomainKeepsHistory ==
    OutOfDomainTurn => memory = obs.start_memory

\* C5: a turn whose utterance contains a reset phrase ends with all seven
\* fields at their defaults and the fixed acknowledgement as the response,
\* and runs no product search.
C5_ResetClearsRecord ==
    (TurnDone /\ is_reset_request(state.question)) =>
        /\ current_preferences = UserPreferences
        /\ state.answer = ClearedAnswer
        /\ obs.searches = 0

\* C6: _handle_preference_update flags the turn as a preference update
\* exactly when some field of the record after its update_preferences call
\* differs from the field's value immediately before the call.
C6_FlaggedIffRecordChanged ==
    TurnDone => (obs.preference_updated <=> (obs.updated /= obs.before))

\* the entries of s without those that repeat an earlier entry
FirstOccurrences(s) ==
    LET keep == { i \in 1..Len(s) : \A j \in 1..(i - 1) : s[j] /= s[i] }
        nth(k) == CHOOSE i \in keep : Cardinality({ j \in keep : j <= i }) = k
    IN  [ k \in 1..Cardinality(keep) |-> s[nth(k)] ]

\* the merge under test has been applied
Merged == m.stage \in {"once", "twice"}

\* C7: after an append-mode merge each of the five list fields is the
\* existing entries followed by the delta's entries, with every repeated
\* entry removed and its first occurrence kept.
C7_AppendIsDedupedConcatenation ==
    (Merged /\ m.append_mode) =>
        \A f \in ListFields :
            m.once[f] = FirstOccurrences(m.cur[f] \o m.new_prefs[f])

\* existing colors [black, red] and delta colors [red, blue] appended
C7_Witness ==
    /\ m.stage = "once"
    /\ m.append_mode
    /\ m.cur.colors = <<W_black, W_red>>
    /\ m.new_prefs.colors = <<W_red, W_blue>>
    /\ m.once.colors = <<W_black, W_red, W_blue>>

\* C8: after a replace-mode merge each list field is the delta's value when
\* that is non-empty and is what it was before the merge when the delta's
\* value is empty.
C8_ReplaceOnlyNonEmpty ==
    (Merged /\ ~m.append_mode) =>
        \A f \in ListFields :
            m.once[f] = IF m.new_prefs[f] /= <<>> THEN m.new_prefs[f] ELSE m.cur[f]

\* categories [tote] replaced by [clutch] while the delta's empty materials
\* leave the record's materials in place
C8_Witness ==
    /\ m.stage = "once"
    /\ ~m.append_mode
    /\ m.cur.categories = <<W_tote>>
    /\ m.new_prefs.categories = <<W_clutch>>
    /\ m.once.categories = <<W_clutch>>
    /\ m.new_prefs.materials = <<>>
    /\ m.cur.materials = <<W_leather>>
    /\ m.once.materials = <<W_leather>>

\* C9: in both modes a merge sets each price bound to the delta's bound when
\* that is not null and leaves it alone when the delta's bound is null.
C9_PriceOverwrittenUnlessNull ==
    Merged =>
        \A k \in PriceFields :
            m.once[k] = IF m.new_prefs[k] /= None THEN m.new_prefs[k] ELSE m.cur[k]

\* price_max 200 and delta price_max 100 in append mode, the delta's
\* price_min null over a set price_min
C9_Witness ==
    /\ m.stage = "once"
    /\ m.append_mode
    /\ m.cur.price_max = Some(200)
    /\ m.new_prefs.price_max = Some(100)
    /\ m.once.price_max = Some(100)
    /\ m.cur.price_min = Some(100)
    /\ m.new_prefs.price_min = None
    /\ m.once.price_min = Some(100)

\* C10: merging the same delta a second time in the same mode leaves the
\* record as the first merge left it.
C10_MergeIdempotent ==
    m.stage = "twice" => m.twice = m.once

\* a second append of a delta whose first append changed the record and
\* which shares an entry with it
C10_Witness ==
    /\ m.stage = "twice"
    /\ m.append_mode
    /\ m.once /= m.cur
    /\ m.cur.colors = <<W_black, W_red>>
    /\ m.new_prefs.colors = <<W_red, W_blue>>
    /\ m.twice.colors = <<W_black, W_red, W_blue>>


\* -------------------------------------- failures and the record's invariants

\* C11: when the try block of update_preferences ends in its except clause
\* (the collaborator raised, its text was not JSON, or the parsed object did
\* not have the expected shape, a list field being null), every field of the
\* Preference Record after the call is what it was before the call.
C11_FailedExtractionKeepsRecord ==
    (TurnDone /\ obs.update_raised) => obs.updated = obs.before

\* C12: every turn ends with a response that one of the branches wrote for
\* process_message to return, whatever the collaborators did, and a
\* general-conversation turn whose reply chain is not configured or raised
\* is answered with the fixed canned reply.
C12_TurnAlwaysAnswers ==
    TurnDone =>
        /\ obs.answered_by /= "none"
        /\ obs.reply_failed => state.answer = CannedAnswer

\* C12 witness: the reply chain is configured and raised in the
\* general-conversation branch, and the turn ends with the canned reply
C12_Witness ==
    /\ TurnDone
    /\ conversation_chain
    /\ obs.reply_failed
    /\ obs.answered_by = "general_conversation"
    /\ state.answer = CannedAnswer

\* the list has no entry twice
NoRepeats(list) ==
    \A i \in DOMAIN list : \A j \in DOMAIN list : list[i] = list[j] => i = j

\* C13: in every state of a session none of brands, categories, colors,
\* materials, features holds the same string more than once.
C13_NoDuplicatesInField ==
    \A f \in ListFields : NoRepeats(current_preferences[f])

\* C14: in every state of a session no string is in more than one of the
\* fields brands, categories, colors, materials, features.
C14_NoStringInTwoFields ==
    \A f \in ListFields : \A g \in ListFields \ {f} :
        \A i \in DOMAIN current_preferences[f] :
            ~InList(current_preferences[f][i], current_preferences[g])

\* C15: in every state of a session price_min and price_max are each null
\* or not negative, and price_min <= price_max when both are set.
C15_PriceBoundsOrdered ==
    LET lo == current_preferences.price_min
        hi == current_preferences.price_max
    IN  /\ lo /= None => lo[1] >= 0
        /\ hi /= None => hi[1] >= 0
        /\ (lo /= None /\ hi /= None) => lo[1] <= hi[1]

\* C16: in every state of a session every entry of brands is a brand of
\* VALID_BRANDS in its canonical spelling and every entry of categories is a
\* member of BAG_CATEGORIES.
C16_BrandsAndCategoriesInVocabulary ==
    /\ \A i \in DOMAIN current_preferences.brands :
           current_preferences.brands[i] \in VALID_BRANDS
    /\ \A i \in DOMAIN current_preferences.categories :
           current_preferences.categories[i] \in BAG_CATEGORIES

\* C16 witness: the collaborator named an unknown brand, ' GUESS ', 'tote'
\* and an unknown category, and the record took Guess and tote, with the
\* unknown category among the features
C16_Witness ==
    /\ TurnDone
    /\ current_preferences.brands = <<W_Guess>>
    /\ current_preferences.categories = <<W_tote>>
    /\ current_preferences.features = <<Lower(W_Sparkly)>>

\* ------------------------------------------------------ the product search

\* langchain Document: page_content and the metadata the catalogue gives it.
\* A price is a number, a text, or not in the metadata at all.
Document(url, name, brand, price, page_content) ==
    [ page_content |-> page_content,
      metadata |-> [url |-> url, name |-> name, brand |-> brand, price |-> price] ]

Number(x) == [kind |-> "number", value |-> x, text |-> <<>>]

Text(s) == [kind |-> "str", value |-> 0, text |-> s]

NoPrice == [kind |-> "missing", value |-> 0, text |-> <<>>]

Digits == << "0","1","2","3","4","5","6","7","8","9" >>

IsDigit(c) == \E i \in 1..10 : Digits[i] = c

DigitValue(c) == (CHOOSE i \in 1..10 : Digits[i] = c) - 1

RECURSIVE DecimalValue(_, _)
\* the number a run of digits writes
DecimalValue(s, acc) ==
    IF s = <<>> THEN acc ELSE DecimalValue(Tail(s), 10 * acc + DigitValue(Head(s)))

\* float(text) for the price texts of a catalogue: blanks around the text are
\* skipped, a run of digits is its number, anything else raises ValueError
float_of_str(s) ==
    LET t == Strip(s)
    IN  IF t /= <<>> /\ \A i \in 1..Len(t) : IsDigit(t[i])
        THEN [ok |-> TRUE, value |-> DecimalValue(t, 0)]
        ELSE [ok |-> FALSE, value |-> 0]

RECURSIVE Remove(_, _)
\* s.replace(c, '') for a one-character c
Remove(s, c) ==
    IF s = <<>> THEN <<>>
    ELSE IF Head(s) = c THEN Remove(Tail(s), c)
    ELSE <<Head(s)>> \o Remove(Tail(s), c)

\* meta.get('price', 0)
price_or_zero(doc) ==
    IF doc.metadata.price.kind = "missing" THEN Number(0) ELSE doc.metadata.price

\* validators.py lines 14-18: doc_price, or the ValueError of float()
doc_price(doc) ==
    LET p == price_or_zero(doc)
    IN  IF p.kind = "str"
        THEN float_of_str(Remove(Remove(p.text, "$"), ","))
        ELSE [ok |-> TRUE, value |-> p.value]

\* search_service.py line 39: float(doc.metadata.get('price', 0))
float_price(doc) ==
    LET p == price_or_zero(doc)
    IN  IF p.kind = "str" THEN float_of_str(p.text)
        ELSE [ok |-> TRUE, value |-> p.value]

\* validators.py lines 7-9
searchable_text(doc) ==
    Lower(doc.metadata.name) \o <<" ">> \o Lower(doc.page_content)

\* `any(word.lower() in text for word in words)`
AnyIn(words, text) ==
    \E i \in 1..Len(words) : Contains(Lower(words[i]), text)

\* matches_preferences with the test of price_max left out
matches_without_price_max(doc, preferences) ==
    LET price_ok ==
          IF preferences.price_min /= None \/ preferences.price_max /= None
          THEN /\ doc_price(doc).ok
               /\ ~(preferences.price_min /= None
                    /\ doc_price(doc).value < preferences.price_min[1])
          ELSE TRUE
    IN  /\ price_ok
        /\ preferences.brands /= <<>> =>
               AnyIn(preferences.brands, Lower(doc.metadata.brand))
        /\ preferences.colors /= <<>> =>
               AnyIn(preferences.colors, searchable_text(doc))
        /\ preferences.categories /= <<>> =>
               AnyIn(preferences.categories, searchable_text(doc))

\* matches_preferences with the test of the colors left out
matches_without_colors(doc, preferences) ==
    LET price_ok ==
          IF preferences.price_min /= None \/ preferences.price_max /= None
          THEN /\ doc_price(doc).ok
               /\ ~(preferences.price_max /= None
                    /\ doc_price(doc).value > preferences.price_max[1])
               /\ ~(preferences.price_min /= None
                    /\ doc_price(doc).value < preferences.price_min[1])
          ELSE TRUE
    IN  /\ price_ok
        /\ preferences.brands /= <<>> =>
               AnyIn(preferences.brands, Lower(doc.metadata.brand))
        /\ preferences.categories /= <<>> =>
               AnyIn(preferences.categories, searchable_text(doc))

\* matches_preferences with the materials tested like the colors
matches_with_materials(doc, preferences) ==
    LET price_ok ==
          IF preferences.price_min /= None \/ preferences.price_max /= None
          THEN /\ doc_price(doc).ok
               /\ ~(preferences.price_max /= None
                    /\ doc_price(doc).value > preferences.price_max[1])
               /\ ~(preferences.price_min /= None
                    /\ doc_price(doc).value < preferences.price_min[1])
          ELSE TRUE
    IN  /\ price_ok
        /\ preferences.brands /= <<>> =>
               AnyIn(preferences.brands, Lower(doc.metadata.brand))
        /\ preferences.colors /= <<>> =>
               AnyIn(preferences.colors, searchable_text(doc))
        /\ preferences.categories /= <<>> =>
               AnyIn(preferences.categories, searchable_text(doc))
        /\ preferences.materials /= <<>> =>
               AnyIn(preferences.materials, searchable_text(doc))

\* utils/validators.py matches_preferences: the hard filter's verdict
matches_preferences(doc, preferences) ==
    LET price_ok ==
          IF preferences.price_min /= None \/ preferences.price_max /= None
          THEN /\ doc_price(doc).ok
               /\ ~(preferences.price_max /= None
                    /\ doc_price(doc).value > preferences.price_max[1])
               /\ ~(preferences.price_min /= None
                    /\ doc_price(doc).value < preferences.price_min[1])
          ELSE TRUE
    IN  /\ price_ok
        /\ preferences.brands /= <<>> =>
               AnyIn(preferences.brands, Lower(doc.metadata.brand))
        /\ preferences.colors /= <<>> =>
               AnyIn(preferences.colors, searchable_text(doc))
        /\ preferences.categories /= <<>> =>
               AnyIn(preferences.categories, searchable_text(doc))

\* data_loader.url_to_image: the urls that have a display asset
url_to_image ==
    { <<"u","1">>, <<"u","2">>, <<"u","3">>, <<"u","4">>,
      <<"u","5">>, <<"u","6">>, <<"u","7">>, <<"u","9">> }

RECURSIVE filtered_docs(_, _)
\* search_products lines 34-43: the candidates kept, in retrieval order, each
\* with its price written back as the float
filtered_docs(docs, preferences) ==
    IF docs = <<>> THEN <<>>
    ELSE LET doc == Head(docs)
             rest == filtered_docs(Tail(docs), preferences)
         IN  IF /\ doc.metadata.url \in url_to_image
                /\ matches_preferences(doc, preferences)
                /\ float_price(doc).ok
             THEN << [doc EXCEPT !.metadata.price = Number(float_price(doc).value)] >>
                  \o rest
             ELSE rest

RECURSIVE InsertByPrice(_, _)
\* doc put behind every entry whose price is not lower than its own
InsertByPrice(sorted, doc) ==
    IF sorted = <<>> THEN <<doc>>
    ELSE IF Head(sorted).metadata.price.value >= doc.metadata.price.value
    THEN <<Head(sorted)>> \o InsertByPrice(Tail(sorted), doc)
    ELSE <<doc>> \o sorted

RECURSIVE SortByPrice(_, _)
\* list.sort(key=price, reverse=True): highest price first, entries of equal
\* price in the order they had
SortByPrice(list, sorted) ==
    IF list = <<>> THEN sorted
    ELSE SortByPrice(Tail(list), InsertByPrice(sorted, Head(list)))

\* search_products with the sort of line 46 in ascending order
search_products_ascending(available, docs, preferences, max_results) ==
    IF ~available THEN <<>>
    ELSE LET sorted == SortByPrice(filtered_docs(docs, preferences), <<>>)
             reversed == [i \in 1..Len(sorted) |-> sorted[Len(sorted) + 1 - i]]
         IN  SubSeq(reversed, 1, IF Len(reversed) < max_results
                                 THEN Len(reversed) ELSE max_results)

\* SearchService.search_products: what it returns. available:
\* vector_service.is_available(); docs: what vector_service.search gives
\* for the enhanced query
search_products(available, docs, preferences, max_results) ==
    IF ~available THEN <<>>
    ELSE LET sorted == SortByPrice(filtered_docs(docs, preferences), <<>>)
         IN  SubSeq(sorted, 1, IF Len(sorted) < max_results
                               THEN Len(sorted) ELSE max_results)

\* search_products lines 34-43, seen from the retrieval: the entries of
\* filtered_docs are the retrieved Document objects themselves, so the write
\* of line 40 changes the metadata of each retrieved candidate that is kept
docs_after_search(available, docs, preferences) ==
    IF ~available THEN docs
    ELSE [ i \in 1..Len(docs) |->
             IF /\ docs[i].metadata.url \in url_to_image
                /\ matches_preferences(docs[i], preferences)
                /\ float_price(docs[i]).ok
             THEN [docs[i] EXCEPT !.metadata.price = Number(float_price(docs[i]).value)]
             ELSE docs[i] ]

\* search_products with the availability test of lines 27-28 left out
search_calls_unguarded(available) == 1

\* SearchService.search_products: the calls of vector_service.search it makes
search_calls(available) == IF ~available THEN 0 ELSE 1

\* the default of search_products' max_results
DefaultMaxResults == 6

\* -------------------------------------------------- the catalogue searched

\* 'Red Tote' by Guess at 50
D_red_tote_50 ==
    Document(<<"u","1">>, <<"R","e","d"," ","T","o","t","e">>, <<"G","u","e","s","s">>,
             Number(50), <<"l","e","a","t","h","e","r"," ","t","o","t","e"," ","b","a","g">>)

\* 'Black Clutch' by Fossil at 200
D_black_clutch_200 ==
    Document(<<"u","2">>, <<"B","l","a","c","k"," ","C","l","u","t","c","h">>, <<"F","o","s","s","i","l">>,
             Number(200), <<"c","a","n","v","a","s"," ","c","l","u","t","c","h">>)

\* 'Blue Tote' by GUESS Originals at 75
D_blue_tote_75 ==
    Document(<<"u","3">>, <<"B","l","u","e"," ","T","o","t","e">>, <<"G","U","E","S","S"," ","O","r","i","g","i","n","a","l","s">>,
             Number(75), <<"n","y","l","o","n"," ","T","O","T","E">>)

\* 'Clutch' by Guess at 150, red only in its text
D_red_clutch_150 ==
    Document(<<"u","4">>, <<"C","l","u","t","c","h">>, <<"G","u","e","s","s">>,
             Number(150), <<"a"," ","R","E","D"," ","c","l","u","t","c","h"," ","w","i","t","h"," ","z","i","p","p","e","r">>)

\* 'Red Tote' of no brand, its price the text '80'
D_red_tote_text_80 ==
    Document(<<"u","5">>, <<"R","e","d"," ","T","o","t","e">>, <<>>,
             Text(<<"8","0">>), <<"t","o","t","e">>)

\* 'Tote' by Fossil, its price the text '$100'
D_tote_dollar_100 ==
    Document(<<"u","6">>, <<"T","o","t","e">>, <<"F","o","s","s","i","l">>,
             Text(<<"$","1","0","0">>), <<"b","l","a","c","k"," ","t","o","t","e">>)

\* 'Red Tote' by Guess, its price the text 'n/a'
D_tote_unpriced ==
    Document(<<"u","7">>, <<"R","e","d"," ","T","o","t","e">>, <<"G","u","e","s","s">>,
             Text(<<"n","/","a">>), <<"t","o","t","e">>)

\* 'Red Tote' by Guess at 100, its url unknown to the data loader
D_no_asset_100 ==
    Document(<<"u","8">>, <<"R","e","d"," ","T","o","t","e">>, <<"G","u","e","s","s">>,
             Number(100), <<"t","o","t","e">>)

\* 'Red Tote' by Guess, no price in its metadata
D_tote_no_price ==
    Document(<<"u","9">>, <<"R","e","d"," ","T","o","t","e">>, <<"G","u","e","s","s">>,
             NoPrice, <<"t","o","t","e">>)

Catalogue ==
    { D_red_tote_50, D_black_clutch_200, D_blue_tote_75, D_red_clutch_150,
      D_red_tote_text_80, D_tote_dollar_100, D_tote_unpriced, D_no_asset_100 }

\* the records the filter is tried with, materials and features left empty
FilterPreferences ==
    { [ UserPreferences EXCEPT !.price_min = lo, !.price_max = hi,
                               !.brands = b, !.colors = c, !.categories = k ] :
        lo \in {None, Some(100)}, hi \in {None, Some(100), Some(200)},
        b \in {<<>>, <<W_Guess>>, <<W_Calvin_Klein, W_Fossil>>},
        c \in {<<>>, <<W_red>>, <<W_blue, W_black>>},
        k \in {<<>>, <<W_tote>>} }

\* what the record's materials and features are tried with
SoftPreferences ==
    { [materials |-> mat, features |-> feat] :
        mat \in {<<>>, <<W_leather>>, <<W_nylon, W_canvas>>},
        feat \in {<<>>, <<W_zipper>>} }

NoFilter ==
    [ stage |-> "none", doc |-> D_red_tote_50, preferences |-> UserPreferences,
      other |-> UserPreferences, verdict |-> FALSE, other_verdict |-> FALSE ]

\* One candidate and two records that agree on the price bounds, brands,
\* colors and categories and have the materials and features of their own
FilterInit ==
    /\ preference_chain = TRUE
    /\ conversation_chain = TRUE
    /\ vectorstore = TRUE
    /\ current_preferences = UserPreferences
    /\ memory = <<>>
    /\ state = NoState
    /\ pc = "idle"
    /\ turns = 0
    /\ obs = NoObs
    /\ \E doc \in Catalogue, p \in FilterPreferences,
          s \in SoftPreferences, t \in SoftPreferences :
          m = [ NoFilter EXCEPT
                  !.stage = "candidate", !.doc = doc,
                  !.preferences = [p EXCEPT !.materials = s.materials,
                                            !.features = s.features],
                  !.other = [p EXCEPT !.materials = t.materials,
                                      !.features = t.features] ]

\* matches_preferences(doc, preferences), for each of the two records
check_candidate ==
    /\ m.stage = "candidate"
    /\ m' = [m EXCEPT !.stage = "checked",
                      !.verdict = matches_preferences(m.doc, m.preferences),
                      !.other_verdict = matches_preferences(m.doc, m.other)]
    /\ UNCHANGED << preference_chain, conversation_chain, vectorstore,
                    current_preferences, memory, state, pc, turns, obs >>

FilterNext == check_candidate

FilterSpec == FilterInit /\ [][FilterNext]_vars

\* the most candidates a retrieval returns
MaxDocs == 3

\* a max_results small enough for the retrieved candidates to exceed it
MaxResults == 2

\* the candidates a search can retrieve
Retrievable ==
    { D_red_tote_50, D_black_clutch_200, D_blue_tote_75, D_red_tote_text_80,
      D_tote_dollar_100, D_no_asset_100, D_tote_no_price }

\* the lists of at most n candidates, none of them twice
Retrievals(n) ==
    { docs \in SeqsUpTo(Retrievable, n) :
        \A i \in DOMAIN docs : \A j \in DOMAIN docs : docs[i] = docs[j] => i = j }

\* the records a search is tried with
SearchPreferences ==
    { [ UserPreferences EXCEPT !.price_min = lo, !.price_max = hi,
                               !.brands = b, !.colors = c ] :
        lo \in {None, Some(75)}, hi \in {None, Some(100)},
        b \in {<<>>, <<W_Guess>>}, c \in {<<>>, <<W_red>>} }

NoSearch ==
    [ stage |-> "none", docs |-> <<>>, preferences |-> UserPreferences,
      max_results |-> 0, result |-> <<>>, search_calls |-> 0,
      docs_after |-> <<>> ]

\* a vector store that is there or not, the candidates it retrieves, and the
\* record of the moment
SearchInit ==
    /\ preference_chain = TRUE
    /\ conversation_chain = TRUE
    /\ vectorstore \in BOOLEAN
    /\ current_preferences \in SearchPreferences
    /\ memory = <<>>
    /\ state = NoState
    /\ pc = "idle"
    /\ turns = 0
    /\ obs = NoObs
    /\ \E docs \in Retrievals(MaxDocs) :
          m = [ NoSearch EXCEPT !.stage = "retrieved", !.docs = docs,
                                !.preferences = current_preferences ]

\* SearchService.search_products(query, preferences, max_results)
search(max_results) ==
    /\ m.stage = "retrieved"
    /\ m' = [m EXCEPT !.stage = "searched",
                      !.max_results = max_results,
                      !.search_calls = search_calls(vectorstore),
                      !.docs_after = docs_after_search(vectorstore, m.docs,
                                                       m.preferences),
                      !.result = search_products(vectorstore, m.docs,
                                                 m.preferences, max_results)]
    /\ UNCHANGED << preference_chain, conversation_chain, vectorstore,
                    current_preferences, memory, state, pc, turns, obs >>

\* ConversationWorkflow._handle_product_search answering with what the
\* search returned (lines 120-131), followed by lines 72-76
answer_search ==
    /\ m.stage = "searched"
    /\ _handle_product_search([raises |-> FALSE, docs |-> m.result],
                              [obs EXCEPT !.updated = current_preferences])
    /\ m' = [m EXCEPT !.stage = "answered"]
    /\ UNCHANGED << preference_chain, conversation_chain, vectorstore, pc, turns >>

SearchNext ==
    \/ \E max_results \in {MaxResults, DefaultMaxResults} : search(max_results)
    \/ answer_search

SearchSpec == SearchInit /\ [][SearchNext]_vars

\* ----------------------------------------------- the claims on the search

\* the candidate's verdict has been computed
Checked == m.stage = "checked"

\* C17: a candidate whose price is above a set price_max or below a set
\* price_min is rejected whatever its brand, color and category; with no
\* brand, color or category preference a candidate whose price lies within
\* the set bounds, a bound itself included, is accepted.
C17_PriceBoundsDecide ==
    Checked =>
        LET p == m.preferences
            price == doc_price(m.doc)
            above == p.price_max /= None /\ price.value > p.price_max[1]
            below == p.price_min /= None /\ price.value < p.price_min[1]
        IN  /\ (price.ok /\ (above \/ below)) => ~m.verdict
            /\ ( /\ price.ok /\ ~above /\ ~below
                 /\ p.brands = <<>> /\ p.colors = <<>> /\ p.categories = <<>> )
               => m.verdict

\* C17 witness: the red Guess clutch at 150 meets brand and color and is
\* rejected for price_max = 100
C17_Witness ==
    /\ Checked
    /\ m.doc = D_red_clutch_150
    /\ m.preferences.price_max = Some(100)
    /\ m.preferences.price_min = None
    /\ m.preferences.brands = <<W_Guess>>
    /\ m.preferences.colors = <<W_red>>
    /\ m.preferences.categories = <<>>
    /\ ~m.verdict

\* C18: an accepted candidate has, for each of brands, colors and categories
\* that is not empty, one preferred entry that is a substring, letter case
\* aside, of its brand (brands) or of its name and content (colors,
\* categories).
C18_AcceptedMeetsEveryListPreference ==
    (Checked /\ m.verdict) =>
        LET p == m.preferences
            text == Lower(m.doc.metadata.name) \o <<" ">> \o Lower(m.doc.page_content)
        IN  /\ p.brands /= <<>> =>
                \E i \in DOMAIN p.brands :
                    Contains(Lower(p.brands[i]), Lower(m.doc.metadata.brand))
            /\ p.colors /= <<>> =>
                \E i \in DOMAIN p.colors : Contains(Lower(p.colors[i]), text)
            /\ p.categories /= <<>> =>
                \E i \in DOMAIN p.categories : Contains(Lower(p.categories[i]), text)

\* C18 witness: 'Blue Tote' by 'GUESS Originals' with content 'nylon TOTE' is
\* accepted for brands [Guess], colors [blue, black], categories [tote]
C18_Witness ==
    /\ Checked
    /\ m.doc = D_blue_tote_75
    /\ m.preferences.brands = <<W_Guess>>
    /\ m.preferences.colors = <<W_blue, W_black>>
    /\ m.preferences.categories = <<W_tote>>
    /\ m.verdict

\* the search has returned
Searched == m.stage = "searched"

\* the candidate is kept by the filter of search_products: its url has a
\* display asset, matches_preferences accepts it, and float() reads its price
Kept(doc, preferences) ==
    /\ doc.metadata.url \in url_to_image
    /\ matches_preferences(doc, preferences)
    /\ float_price(doc).ok

\* C19: search_products returns at most max_results entries, each one of the
\* retrieved candidates and kept by the hard filter, highest price first,
\* and no kept candidate it leaves out has a higher price than one it
\* returns (as many as max_results being returned when that many are kept).
C19_ResultIsTopByPrice ==
    Searched =>
        LET urls == { m.result[i].metadata.url : i \in DOMAIN m.result }
            kept == { i \in DOMAIN m.docs : Kept(m.docs[i], m.preferences) }
        IN  /\ Len(m.result) <= m.max_results
            /\ Cardinality(urls) = Len(m.result)
            /\ \A i \in DOMAIN m.result :
                   \E j \in kept :
                       /\ m.docs[j].metadata.url = m.result[i].metadata.url
                       /\ float_price(m.docs[j]).value = m.result[i].metadata.price.value
            /\ \A i \in DOMAIN m.result : \A j \in DOMAIN m.result :
                   i < j => m.result[i].metadata.price.value
                            >= m.result[j].metadata.price.value
            /\ vectorstore =>
                   /\ Len(m.result) = IF Cardinality(kept) < m.max_results
                                      THEN Cardinality(kept) ELSE m.max_results
                   /\ \A j \in kept :
                          m.docs[j].metadata.url \notin urls =>
                              \A i \in DOMAIN m.result :
                                  float_price(m.docs[j]).value
                                      <= m.result[i].metadata.price.value

\* C19 witness: the candidates priced 50, 200, 75, all matching, come back
\* as 200, 75, 50
C19_Witness ==
    /\ Searched
    /\ m.docs = << D_red_tote_50, D_black_clutch_200, D_blue_tote_75 >>
    /\ m.preferences = UserPreferences
    /\ m.max_results = DefaultMaxResults
    /\ m.result = << D_black_clutch_200, D_blue_tote_75, D_red_tote_50 >>

\* C20: two records that agree on price_min, price_max, brands, colors and
\* categories give a candidate the same verdict, whatever their materials
\* and features.
C20_VerdictIgnoresMaterialsAndFeatures ==
    Checked => m.verdict = m.other_verdict

\* C20 witness: a candidate without leather in its text is accepted for a
\* record with materials [leather] and a zipper feature and for a record
\* that agrees with it and has neither
C20_Witness ==
    /\ Checked
    /\ m.doc = D_black_clutch_200
    /\ m.preferences.materials = <<W_leather>>
    /\ m.preferences.features = <<W_zipper>>
    /\ m.other.materials = <<>>
    /\ m.other.features = <<>>
    /\ m.preferences.colors = <<W_blue, W_black>>
    /\ m.verdict
    /\ m.other_verdict

\* ------------------------------------- the claims on what a search leaves out

\* C21: every entry search_products returns comes from a retrieved candidate
\* whose url has a display asset and whose metadata holds a price that reads
\* as a number; a candidate without a price, or with a price that does not
\* read as a number, is not among the entries returned.
C21_ReturnedHaveAssetAndPrice ==
    Searched =>
        \A i \in DOMAIN m.result :
            \E j \in DOMAIN m.docs :
                /\ m.docs[j].metadata.url = m.result[i].metadata.url
                /\ m.docs[j].metadata.url \in url_to_image
                /\ m.docs[j].metadata.price.kind /= "missing"
                /\ float_price(m.docs[j]).ok

\* ------------------------------------------ the validation of a delta's lists

\* the brands the collaborator can claim: an alias, an unknown name, a
\* vocabulary brand in capitals between blanks, one in its canonical
\* spelling, one in small letters
BrandTokens ==
    { W_ck, W_xyz, W_GUESS_padded, W_Calvin_Klein, <<"f","o","s","s","i","l">> }

\* config/prompts.py, PREFERENCE_PROMPT: 'Only use these exact category
\* names'
PromptCategories ==
    { <<"t","o","t","e"," ","b","a","g">>,
      <<"s","h","o","u","l","d","e","r"," ","b","a","g">>,
      <<"d","u","f","f","l","e"," ","b","a","g">>,
      <<"b","a","c","k","p","a","c","k">>,
      <<"c","l","u","t","c","h">>,
      <<"c","r","o","s","s","b","o","d","y">>,
      <<"h","a","n","d","b","a","g">>,
      <<"m","e","s","s","e","n","g","e","r">>,
      <<"s","a","t","c","h","e","l">>,
      <<"l","a","p","t","o","p"," ","b","a","g">>,
      <<"b","r","i","e","f","c","a","s","e">>,
      <<"w","r","i","s","t","l","e","t">>,
      <<"w","a","l","l","e","t">>,
      <<"p","u","r","s","e">> }

\* the categories the collaborator can claim: the names its prompt gives it,
\* vocabulary entries capitalised and after a blank, variants the
\* corrections know, and words that are no category
CategoryTokens ==
    PromptCategories \cup
    { W_tote, W_clutch, <<" ","C","l","u","t","c","h">>, <<"T","O","T","E">>,
      W_cross_body, <<"c","r","o","s","s"," ","b","o","d","y">>,
      <<"s","h","o","u","l","d","e","r">>, W_Sparkly, W_hobo }

NoValidation ==
    [ stage |-> "none", brands |-> <<>>, categories |-> <<>>,
      valid_brands |-> <<>>, invalid_brands |-> <<>>,
      valid_categories |-> <<>>, features_to_add |-> <<>> ]

\* a delta as from_dict delivers it: its brands or its categories a list of
\* at most MaxLen tokens, the other list empty
ValidateInit ==
    /\ preference_chain = TRUE
    /\ conversation_chain = TRUE
    /\ vectorstore = TRUE
    /\ current_preferences = UserPreferences
    /\ memory = <<>>
    /\ state = NoState
    /\ pc = "idle"
    /\ turns = 0
    /\ obs = NoObs
    /\ \/ \E brands \in SeqsUpTo(BrandTokens, MaxLen) :
              m = [ NoValidation EXCEPT !.stage = "claimed", !.brands = brands ]
       \/ \E categories \in SeqsUpTo(CategoryTokens, MaxLen) :
              m = [ NoValidation EXCEPT !.stage = "claimed",
                                        !.categories = categories ]

\* lines 36-43 of _validate_and_merge: the calls of _validate_brands and
\* _validate_categories
validate ==
    /\ m.stage = "claimed"
    /\ m' = [m EXCEPT
               !.stage = "validated",
               !.valid_brands = _validate_brands(m.brands).valid_brands,
               !.invalid_brands = _validate_brands(m.brands).invalid_brands,
               !.valid_categories = _validate_categories(m.categories).valid_categories,
               !.features_to_add = _validate_categories(m.categories).features_to_add]
    /\ UNCHANGED << preference_chain, conversation_chain, vectorstore,
                    current_preferences, memory, state, pc, turns, obs >>

ValidateNext == validate

ValidateSpec == ValidateInit /\ [][ValidateNext]_vars

\* ------------------------------------------------ the claims on validation

\* the two validations have returned
Validated == m.stage = "validated"

\* the brand, letter case aside, is the vocabulary brand vb
SameBrand(brand, vb) == << Lower(brand), vb >> \in VALID_BRANDS_lower

\* the brand, in small letters, is a key of the correction table
IsAlias(brand) == \E c \in BRAND_CORRECTIONS : c[1] = Lower(brand)

\* the brand is a vocabulary brand, letter case aside, or an alias
KnownAsGiven(brand) == (\E vb \in VALID_BRANDS : SameBrand(brand, vb)) \/ IsAlias(brand)

\* the vocabulary brand the brand stands for
Canonical(brand) ==
    IF \E vb \in VALID_BRANDS : SameBrand(brand, vb)
    THEN CHOOSE vb \in VALID_BRANDS : SameBrand(brand, vb)
    ELSE (CHOOSE c \in BRAND_CORRECTIONS : c[1] = Lower(brand))[2]

UnknownAsGiven(brand) == ~KnownAsGiven(brand)

\* the same, for the brand with the blanks around it taken off
KnownTrimmed(brand) == KnownAsGiven(Strip(brand))

UnknownTrimmed(brand) == ~KnownTrimmed(brand)

\* C22 as stated: the valid list holds, in order, the canonical spelling of
\* every claimed brand that is a vocabulary brand letter case aside or whose
\* lower-cased form is a key of the correction table, and the invalid list
\* holds, in order, every other claimed brand.
C22_BrandsAsGiven ==
    Validated =>
        LET known == SelectSeq(m.brands, KnownAsGiven)
        IN  /\ m.valid_brands = [i \in 1..Len(known) |-> Canonical(known[i])]
            /\ m.invalid_brands = SelectSeq(m.brands, UnknownAsGiven)

\* C22 amended: the same with every claimed brand compared after the blanks
\* around it are taken off; the invalid list reports the brand as claimed.
C22_BrandsTrimmed ==
    Validated =>
        LET known == SelectSeq(m.brands, KnownTrimmed)
        IN  /\ m.valid_brands = [i \in 1..Len(known) |-> Canonical(Strip(known[i]))]
            /\ m.invalid_brands = SelectSeq(m.brands, UnknownTrimmed)
            /\ Len(m.valid_brands) + Len(m.invalid_brands) = Len(m.brands)

\* C22 witness: 'ck' and 'xyz' are claimed; 'Calvin Klein' is the one valid
\* brand and 'xyz' the one reported
C22_Witness ==
    /\ Validated
    /\ m.brands = << W_ck, W_xyz >>
    /\ m.valid_brands = << W_Calvin_Klein >>
    /\ m.invalid_brands = << W_xyz >>

\* the token as the validation compares it
Normal(token) == Strip(Lower(token))

\* v is the vocabulary category the token stands for: the token itself, its
\* rewrite, or the token with ' bag' behind it
Resolves(token, v) ==
    LET n == Normal(token)
    IN  /\ v \in BAG_CATEGORIES
        /\ \/ v = n
           \/ << n, v >> \in category_corrections
           \/ v = n \o <<" ","b","a","g">>

\* the token stands for some vocabulary category
Resolvable(token) ==
    LET n == Normal(token)
    IN  \/ n \in BAG_CATEGORIES
        \/ \E c \in category_corrections : c[1] = n /\ c[2] \in BAG_CATEGORIES
        \/ n \o <<" ","b","a","g">> \in BAG_CATEGORIES

IsTote(token) == Normal(token) = <<"t","o","t","e">>

\* a token other than 'tote' that stands for a vocabulary category
IsCategory(token) == ~IsTote(token) /\ Resolvable(token)

\* a token other than 'tote' that stands for none
IsNoCategory(token) == ~IsTote(token) /\ ~Resolvable(token)

NotTote(category) == category /= <<"t","o","t","e">>

\* C23: the claimed tokens other than 'tote' that stand for a vocabulary
\* category are, in order, in categories as that category, and nowhere in
\* the features to add; the others are, in order, the features to add, and
\* not in categories; categories holds vocabulary entries only.
C23_TokenInExactlyOneOutput ==
    Validated =>
        LET named == SelectSeq(m.categories, IsCategory)
            others == SelectSeq(m.categories, IsNoCategory)
            placed == SelectSeq(m.valid_categories, NotTote)
        IN  /\ Len(placed) = Len(named)
            /\ \A i \in DOMAIN named : Resolves(named[i], placed[i])
            /\ m.features_to_add = [i \in 1..Len(others) |-> Normal(others[i])]
            /\ \A i \in DOMAIN m.valid_categories :
                   m.valid_categories[i] \in BAG_CATEGORIES
            /\ \A i \in DOMAIN named : \A j \in DOMAIN m.features_to_add :
                   m.features_to_add[j] /= Normal(named[i])

\* C23 witness: 'cross-body' and 'Sparkly' are claimed; categories is
\* [crossbody] and 'sparkly' is the one feature to add
C23_Witness ==
    /\ Validated
    /\ m.categories = << W_cross_body, W_Sparkly >>
    /\ m.valid_categories = << W_crossbody >>
    /\ m.features_to_add = << <<"s","p","a","r","k","l","y">> >>

IsNotLiteralTote(token) == token /= W_tote

\* C24: the claimed tokens 'tote' leave 'tote bag' in categories if the
\* vocabulary has 'tote bag', and otherwise leave nothing: the two outputs
\* are those of the claimed list without its 'tote' tokens; 'tote' is never
\* among the features to add.
C24_ToteResolvedOrOmitted ==
    Validated =>
        LET tote_bag == <<"t","o","t","e"," ","b","a","g">>
            totes == Len(m.categories) - Len(SelectSeq(m.categories, IsNotLiteralTote))
            without == _validate_categories(SelectSeq(m.categories, IsNotLiteralTote))
        IN  /\ \A i \in DOMAIN m.features_to_add : m.features_to_add[i] /= W_tote
            /\ IF tote_bag \in BAG_CATEGORIES
               THEN Len(m.valid_categories) = Len(without.valid_categories) + totes
               ELSE /\ m.valid_categories = without.valid_categories
                    /\ m.features_to_add = without.features_to_add

\* ------------------------------------------- the clear handler beside a turn

\* the clear handler's position, chat_history_ui (its entries the pairs of a
\* role and a text), and what the handler left behind at its return
NoClear ==
    [ stage |-> "none", chat_history_ui |-> <<>>,
      at_return |-> [ current_preferences |-> UserPreferences, memory |-> <<>>,
                      chat_history_ui |-> <<>> ] ]

\* The application with both chains and the vector store, as it starts or
\* after one turn 'show me red bags' answered with products; the clear
\* button not yet pressed
ClearInit ==
    /\ preference_chain = TRUE
    /\ conversation_chain = TRUE
    /\ vectorstore = TRUE
    /\ state = NoState
    /\ pc = "idle"
    /\ turns = 0
    /\ obs = NoObs
    /\ \/ /\ current_preferences = UserPreferences
          /\ memory = <<>>
          /\ m = [NoClear EXCEPT !.stage = "idle"]
       \/ /\ current_preferences = [UserPreferences EXCEPT !.colors = <<W_red>>]
          /\ memory = << HumanMessage(U_show_me_red_bags), AIMessage(ProductsAnswer) >>
          /\ m = [NoClear EXCEPT
                    !.stage = "idle",
                    !.chat_history_ui = << << "user", U_show_me_red_bags >>,
                                           << "assistant", ProductsAnswer >> >>]

\* GradioInterface.chat_interface after process_message has returned: lines
\* 38-39 and the return
chat_interface_return ==
    /\ pc = "done"
    /\ m.stage /= "none"
    /\ m' = [m EXCEPT !.chat_history_ui =
                @ \o << << "user", state.question >>,
                        << "assistant", state.answer >> >>]
    /\ pc' = "idle"
    /\ turns' = turns + 1
    /\ state' = NoState
    /\ obs' = NoObs
    /\ UNCHANGED << preference_chain, conversation_chain, vectorstore,
                    current_preferences, memory >>

\* GradioInterface.clear_chat, one statement at a time: the handler runs on a
\* worker thread of its own and takes no lock, so the statements of a turn
\* in progress can come between its own
clear_chat_statement ==
    /\ \/ /\ m.stage = "idle"
          /\ m' = [m EXCEPT !.stage = "history_cleared", !.chat_history_ui = <<>>]
          /\ UNCHANGED << current_preferences, memory >>
       \/ /\ m.stage = "history_cleared"
          /\ current_preferences' = clear(current_preferences)
          /\ m' = [m EXCEPT !.stage = "preferences_cleared"]
          /\ UNCHANGED memory
       \/ /\ m.stage = "preferences_cleared"
          /\ memory' = <<>>
          /\ m' = [m EXCEPT
                     !.stage = "returned",
                     !.at_return = [ current_preferences |-> current_preferences,
                                     memory |-> <<>>,
                                     chat_history_ui |-> m.chat_history_ui ]]
          /\ UNCHANGED current_preferences
    /\ UNCHANGED << preference_chain, conversation_chain, vectorstore, state,
                    pc, turns, obs >>

\* a turn 'show me red bags' or 'hello there my good friend', the extraction
\* failing or claiming colors [red], and the clear handler
ClearNext ==
    \/ \E user_input \in {U_show_me_red_bags, U_hello_there} :
           process_message(user_input)
    \/ \E i \in {1, 3} : _process_input_and_route(Extracted[i])
    \/ \E i \in {1, 3} : _execute_search_or_respond(Extracted[i])
    \/ chat_interface_return
    \/ clear_chat_statement

ClearSpec == ClearInit /\ [][ClearNext]_vars

\* ------------------------------------------------- the claims on the clear

\* C25: when clear_chat returns, the seven fields of the Preference Record
\* are at their defaults and the workflow memory and the UI history are
\* empty, a turn in progress or not.
C25_ClearLeavesAllReset ==
    m.stage = "returned" =>
        /\ m.at_return.current_preferences = UserPreferences
        /\ m.at_return.memory = <<>>
        /\ m.at_return.chat_history_ui = <<>>

\* -------------------------------------------- the claims on the two sessions

\* What a browser session works with: _initialize_services builds one
\* PreferenceService and one ConversationWorkflow, and every session's
\* requests go to these
session_state(session) ==
    [ current_preferences |-> current_preferences, memory |-> memory ]

\* C26: a turn of session A leaves the Preference Record and the chat
\* history of session B as they were when the turn started.
C26_OtherSessionUntouched ==
    TurnDone =>
        session_state("B") = [ current_preferences |-> obs.start_prefs,
                               memory |-> obs.start_memory ]

\* ------------------------------------ the claims on failures and the pipeline

\* C27: without a vector store search_products returns the empty list and
\* makes no call of vector_service.search, whatever the store would have
\* retrieved, and _handle_product_search answers that no products were
\* found.
C27_UnavailableStoreGivesNoProducts ==
    (~vectorstore /\ m.stage \in {"searched", "answered"}) =>
        /\ m.result = <<>>
        /\ m.search_calls = 0
        /\ m.stage = "answered" => state.answer = NoProductsAnswer

\* C27 witness: no vector store, three candidates it would have retrieved,
\* and the turn answered with the no-products text
C27_Witness ==
    /\ ~vectorstore
    /\ m.stage = "answered"
    /\ Len(m.docs) = 3
    /\ m.result = <<>>
    /\ m.search_calls = 0
    /\ state.answer = NoProductsAnswer
    /\ memory = << HumanMessage(state.question), AIMessage(NoProductsAnswer) >>

\* C28: no turn is answered with a failure text other than the generic
\* 'technical difficulties' one: the answer is never the search-error text.
C28_OnlyGenericFailureText ==
    TurnDone => state.answer /= SearchErrorAnswer

\* C29: a turn calls the extraction collaborator at most once and runs at
\* most one retrieval.
C29_OneExtractionOneRetrieval ==
    TurnDone => (obs.extractions <= 1 /\ obs.searches <= 1)

\* C30: after an in-domain turn the chat history is the history the turn
\* started with, followed by the utterance and the turn's answer.
C30_HistoryGrowsByTheTurn ==
    (TurnDone /\ Lexical[state.question].relevant) =>
        memory = obs.start_memory \o << HumanMessage(state.question),
                                        AIMessage(state.answer) >>

\* --------------------------------------- the functions of the utterance alone

\* the most words an utterance of Sentences has
MaxWords == 4

RECURSIVE Sentences(_)
\* the utterances of at most n words, a blank between two words, over: a
\* search keyword, a refinement term, a word that is neither, a capitalised
\* append indicator, and a product noun with 'and' in it
Sentences(n) ==
    IF n = 0 THEN { <<>> }
    ELSE LET shorter == Sentences(n - 1)
             words == { <<"s","h","o","w">>, W_leather,
                        <<"p","l","e","a","s","e">>, <<"A","l","s","o">>,
                        <<"h","a","n","d","b","a","g">> }
         IN  shorter \cup
             { (IF s = <<>> THEN <<>> ELSE s \o <<" ">>) \o w : s \in shorter, w \in words }

\* build_search_query_with_preferences with the colors put before the
\* materials
query_colors_first(user_question, preferences) ==
    LET RECURSIVE join(_)
        join(parts) == IF Len(parts) = 1 THEN parts[1]
                       ELSE parts[1] \o <<" ">> \o join(Tail(parts))
    IN  join(<<user_question>> \o preferences.colors \o preferences.materials
             \o preferences.categories \o preferences.brands)

\* SearchService.build_search_query_with_preferences: " ".join(query_parts)
build_search_query_with_preferences(user_question, preferences) ==
    LET RECURSIVE join(_)
        join(parts) == IF Len(parts) = 1 THEN parts[1]
                       ELSE parts[1] \o <<" ">> \o join(Tail(parts))
        query_parts == <<user_question>> \o preferences.materials
                       \o preferences.colors \o preferences.categories
                       \o preferences.brands
    IN  join(query_parts)

\* An utterance and a Preference Record: every utterance of Sentences with
\* the empty record, preferences taken as active or not; or one of two
\* utterances with a record that is empty, has one field set, or has all
TextInit ==
    /\ preference_chain = TRUE
    /\ conversation_chain = TRUE
    /\ vectorstore = TRUE
    /\ current_preferences = UserPreferences
    /\ memory = <<>>
    /\ state = NoState
    /\ pc = "idle"
    /\ turns = 0
    /\ obs = NoObs
    /\ \/ \E user_input \in Sentences(MaxWords) \ { <<>> }, has \in BOOLEAN :
              m = [ stage |-> "asked", user_input |-> user_input,
                    preferences |-> UserPreferences, has_preferences |-> has,
                    should_search |-> FALSE, append_mode |-> FALSE,
                    query |-> <<>>, summary |-> <<>> ]
       \/ \E user_input \in {U_show_me_red_bags, U_and_a_tote_too},
             p \in { UserPreferences, SetRecord, SetDelta,
                     [UserPreferences EXCEPT !.features = <<W_zipper>>],
                     [UserPreferences EXCEPT !.price_min = Some(0)],
                     [UserPreferences EXCEPT !.price_max = Some(0)],
                     [UserPreferences EXCEPT !.price_min = Some(0),
                                             !.price_max = Some(100)],
                     [UserPreferences EXCEPT !.colors = <<W_red, W_blue>>,
                                             !.materials = <<W_leather, W_canvas>>],
                     [UserPreferences EXCEPT !.brands = <<W_Calvin_Klein, W_Guess>>,
                                             !.categories = <<W_crossbody>>] } :
              m = [ stage |-> "asked", user_input |-> user_input,
                    preferences |-> p,
                    has_preferences |-> has_active_preferences(p),
                    should_search |-> FALSE, append_mode |-> FALSE,
                    query |-> <<>>, summary |-> <<>> ]

\* what the turn computes from its utterance and the record: the search test
\* of _process_input_and_route (lines 52-55), the mode of _validate_and_merge
\* (preference_service.py line 49), the query of search_products (line 30),
\* the summary the answers quote
analyse ==
    /\ m.stage = "asked"
    /\ m' = [m EXCEPT
               !.stage = "analysed",
               !.should_search = should_search_products(m.user_input, m.has_preferences),
               !.append_mode = _analyze_intent(m.user_input),
               !.query = build_search_query_with_preferences(m.user_input, m.preferences),
               !.summary = get_summary(m.preferences)]
    /\ UNCHANGED << preference_chain, conversation_chain, vectorstore,
                    current_preferences, memory, state, pc, turns, obs >>

TextSpec == TextInit /\ [][analyse]_vars

\* --------------------------------- the claims on the functions of the utterance

\* the utterance and the record have been analysed
Analysed == m.stage = "analysed"

\* some term of the set is a substring of the utterance in small letters
HasTerm(terms, user_input) ==
    LET small == Lower(user_input) IN \E t \in terms : Contains(t, small)

\* C31: should_search_products answers yes exactly when the utterance
\* contains a search keyword, or preferences are active and it contains a
\* refinement term or has at most 3 words, or it contains a product noun;
\* with no active preferences a short utterance without keyword and product
\* noun gets a no.
C31_SearchDecision ==
    Analysed =>
        m.should_search =
            ( \/ HasTerm(search_keywords, m.user_input)
              \/ m.has_preferences /\ ( \/ HasTerm(refinement_terms, m.user_input)
                                        \/ WordCount(m.user_input) <= 3 )
              \/ HasTerm(product_terms, m.user_input) )

\* C31 witness: 'please leather', two words with a refinement term and no
\* keyword or product noun, gets a no while no preference is active
C31_Witness ==
    /\ Analysed
    /\ m.user_input = <<"p","l","e","a","s","e">> \o <<" ">> \o W_leather
    /\ ~m.has_preferences
    /\ ~m.should_search

\* C32: the mode is append exactly when one of 'also', 'as well',
\* 'additionally', 'and', 'too', 'along with' is a substring of the
\* utterance in small letters, whatever the record.
C32_AppendModeFromUtterance ==
    Analysed =>
        m.append_mode =
            HasTerm({ <<"a","l","s","o">>, <<"a","s"," ","w","e","l","l">>,
                      <<"a","d","d","i","t","i","o","n","a","l","l","y">>,
                      <<"a","n","d">>, <<"t","o","o">>,
                      <<"a","l","o","n","g"," ","w","i","t","h">> }, m.user_input)

\* C32 witness: 'show Also' is in append mode, with preferences taken as
\* active
C32_Witness ==
    /\ Analysed
    /\ m.user_input = <<"s","h","o","w"," ","A","l","s","o">>
    /\ m.has_preferences
    /\ m.append_mode

\* ------------------------------------------- the claims on the prompt's names

\* C33: a claimed category that is one of the names the extraction prompt
\* prescribes is in categories after the validation, and is not among the
\* features to add.
C33_PromptCategoriesKept ==
    Validated =>
        \A i \in DOMAIN m.categories :
            m.categories[i] \in PromptCategories =>
                /\ InList(m.categories[i], m.valid_categories)
                /\ ~InList(m.categories[i], m.features_to_add)

\* -------------------------------------------- the claims on the search's frame

\* C34: after search_products the page content and the metadata, the price
\* included, of every retrieved candidate are what they were before the
\* call.
C34_CandidatesUnchanged ==
    Searched => m.docs_after = m.docs

\* ------------------------------------ the claims on the query and the summary

RECURSIVE Spaced(_)
\* each word with a blank before it, one after the other
Spaced(words) ==
    IF words = <<>> THEN <<>> ELSE <<" ">> \o Head(words) \o Spaced(Tail(words))

\* C35: the query is the utterance as given, followed by the record's
\* materials, then colors, then categories, then brands, each after one
\* blank; price bounds and features add nothing.
C35_QueryIsUtteranceThenPreferences ==
    Analysed =>
        m.query = m.user_input
                  \o Spaced(m.preferences.materials) \o Spaced(m.preferences.colors)
                  \o Spaced(m.preferences.categories) \o Spaced(m.preferences.brands)

\* C35 witness: 'show me red bags' with the record that has every field set
\* gives 'show me red bags leather black red tote Guess'
C35_Witness ==
    /\ Analysed
    /\ m.user_input = U_show_me_red_bags
    /\ m.preferences = SetRecord
    /\ m.query = U_show_me_red_bags \o <<" ">> \o W_leather \o <<" ">> \o W_black
                 \o <<" ">> \o W_red \o <<" ">> \o W_tote \o <<" ">> \o W_Guess

\* the summary says that no preference is active
SaysNone(summary) ==
    /\ Len(summary) = 1
    /\ summary[1].label = "No active preferences set"

\* C36: the summary is the text 'No active preferences set' exactly when
\* has_active_preferences() is false; with any of the seven fields set, only
\* features or a price bound of 0 included, it describes the preferences.
C36_SummaryNoneIffInactive ==
    Analysed => (SaysNone(m.summary) <=> ~has_active_preferences(m.preferences))

\* ---------------------------------------------------- the turn comes to an end

\* The session with its turns carried through: agent.invoke runs the two
\* nodes one after the other, every collaborator call in them returns or
\* raises, and process_message returns what the second node left
LiveSpec ==
    /\ Spec
    /\ WF_vars(\E i \in DOMAIN Extracted : _process_input_and_route(Extracted[i]))
    /\ WF_vars(\E i \in DOMAIN Extracted : _execute_search_or_respond(Extracted[i]))
    /\ WF_vars(process_message_return)

\* the turn is about to return a text that one of the branches of the second
\* node wrote
AnsweredByOneBranch ==
    /\ TurnDone
    /\ state.answer.text /= ""
    /\ obs.answered_by \in { "preference_update", "product_search",
                             "general_conversation", "reset" }

\* C37: every turn that process_message starts runs process_and_route, then
\* search_or_respond, and comes to its return with a non-empty answer that
\* was written by the preference-update, the product-search or the
\* general-conversation branch (reset included); no failure leaves the two
\* nodes, so the handler of lines 176-178 writes none.
C37_TurnEndsAnswered ==
    /\ [](TurnDone => AnsweredByOneBranch)
    /\ (pc = "process_and_route") ~> AnsweredByOneBranch
    /\ [][pc' /= pc => << pc, pc' >> \in { << "idle", "process_and_route" >>,
                                           << "process_and_route", "search_or_respond" >>,
                                           << "search_or_respond", "done" >>,
                                           << "done", "idle" >> }]_vars

\* C37 witness: an out-of-domain turn, redirected by the first node, ends
\* with the general-conversation branch's canned reply
C37_Witness ==
    /\ TurnDone
    /\ state.question = U_what_is_the_weather
    /\ obs.answered_by = "general_conversation"
    /\ state.answer = CannedAnswer
====
